---- MODULE Spec2Model ----
(***************************************************************************)
(* A model of the text-extraction core of ATS_AGENT: the content reader    *)
(* (tools/pdf_utils.py) and the job-description extractors                 *)
(* (tools/jd_parser.py).  Texts are sequences of one-character strings,    *)
(* file contents are sequences of byte values, decoded texts are sequences *)
(* of code points.  Regular expressions are syntax trees matched by a      *)
(* backtracking matcher with the priorities of Python's re module.         *)
(***************************************************************************)
EXTENDS Integers, Sequences, FiniteSets, TLC

VARIABLES
  fs,        \* the filesystem: path -> file content (bytes) or NoFile
  rpath,     \* content reader: the path of the call in progress
  rpc,       \* content reader: position in read_file_content / read_pdf_content / read_text_file
  rfn,       \* content reader: the function the call was dispatched to
  rfitz,     \* content reader: what the PyMuPDF attempt of the call did (kind, page texts)
  renc,      \* content reader: index of the next encoding of the loop
  rtried,    \* content reader: the steps attempted so far, in order
  rresult,   \* content reader: the returned text or the raised exception
  text,      \* extractors: the input text
  pidx,      \* extract_required_skills: index of the next pattern of the loop
  skills,    \* extract_required_skills: the dict being built
  writes,    \* extract_required_skills: every skills[skill] = years executed, in order
  fallback,  \* extract_required_skills: whether the vocabulary fallback ran
  skpc,      \* extract_required_skills: position
  tpc,       \* extract_job_title: position
  tidx,      \* extract_job_title: index of the next title pattern
  title,     \* extract_job_title: the returned title
  epc,       \* section extractors: position
  ekind,     \* section extractors: which of the two extractors was called
  section_text, \* section extractors: the text of the section found, or NoSection
  items,     \* section extractors: the list returned
  calls,     \* extractor calls: every call made so far with its result, in order
  kept,      \* extractor calls: the locals each extractor's last call ended with
  jfs,       \* JDAgent: the job-description files, path -> bytes or NoFile
  jfn,       \* JDAgent: the tool called
  jarg,      \* JDAgent: its argument, a path or a content
  jpc,       \* JDAgent: position
  jd_content, \* JDAgent: the content being parsed
  jidx,      \* JDAgent: index of the next extractor to call, 0 before the first
  jrec,      \* JDAgent: the fields extracted so far
  jresult,   \* JDAgent: the dict returned
  jmongo,    \* JDAgent: what the MongoDB step of the call did
  payload,   \* envelopes: the caller's dict, passed as payload or as extra
  default_extra, \* envelopes: the default value of error_response's extra
  ecall,     \* envelopes: the last call, with the caller's dict as it was before
  envelope,  \* envelopes: the envelope the last call returned
  bfiles,    \* agent boundary: the resume file and the metadata file
  bkb,       \* agent boundary: the knowledge base of the ResumeAgent
  bcall,     \* agent boundary: the tool operation called last
  bresult,   \* agent boundary: the result it returned
  bmongo,    \* agent boundary: what the MongoDB step of the call did
  rtfs,      \* resume tools: the filesystem, path -> file
  rtfn,      \* resume tools: the tool called
  rtarg,     \* resume tools: its argument, a path
  rtpc,      \* resume tools: position
  rtopened,  \* resume tools: the paths the call has tried to open, in order
  pdf_files, \* batch_process_resume_folder: the listing of the folder
  rtidx,     \* batch_process_resume_folder: index of the next file of the listing
  results,   \* batch_process_resume_folder: the entries appended so far
  rtresult,  \* resume tools: the envelope returned
  cbytes,    \* decode chains: the bytes of the file read
  copies,    \* decode chains: what each copy of the chain returned, once it ran
  fmfs,      \* file tools: the filesystem (existing directories, file contents)
  fmbefore,  \* file tools: the filesystem when the last call started
  fmcall,    \* file tools: the last call (tool, source, destination)
  fmresult   \* file tools: the dict the last call returned

vars == <<fs, rpath, rpc, rfn, rfitz, renc, rtried, rresult, text, pidx, skills, writes, fallback, skpc, tpc, tidx, title,
         epc, ekind, section_text, items,
         calls, kept, jfs, jfn, jarg, jpc, jd_content, jidx, jrec, jresult, jmongo,
         payload, default_extra, ecall, envelope, bfiles, bkb, bcall, bresult, bmongo,
         rtfs, rtfn, rtarg, rtpc, rtopened, pdf_files, rtidx, results, rtresult,
         cbytes, copies, fmfs, fmbefore, fmcall, fmresult>>
readerVars == <<fs, rpath, rpc, rfn, rfitz, renc, rtried, rresult>>
skillVars == <<pidx, skills, writes, fallback, skpc>>
titleVars == <<tpc, tidx, title>>
sectionVars == <<epc, ekind, section_text, items>>
callVars == <<calls, kept>>
jdVars == <<jfs, jfn, jarg, jpc, jd_content, jidx, jrec, jresult, jmongo>>
envelopeVars == <<payload, default_extra, ecall, envelope>>
boundaryVars == <<bfiles, bkb, bcall, bresult, bmongo>>
toolVars == <<rtfs, rtfn, rtarg, rtpc, rtopened, pdf_files, rtidx, results, rtresult>>
copyVars == <<cbytes, copies>>
fileVars == <<fmfs, fmbefore, fmcall, fmresult>>

Range(f) == {f[i] : i \in DOMAIN f}
MinOf(S) == CHOOSE m \in S : \A y \in S : m <= y
MaxOf(S) == CHOOSE m \in S : \A y \in S : m >= y

(***************************************************************************)
(* Characters.                                                             *)
(***************************************************************************)
Digits == <<"0", "1", "2", "3", "4", "5", "6", "7", "8", "9">>
UpperSeq == <<"A", "B", "C", "D", "E", "F", "G", "H", "I", "J", "K", "L", "M",
              "N", "O", "P", "Q", "R", "S", "T", "U", "V", "W", "X", "Y", "Z">>
LowerSeq == <<"a", "b", "c", "d", "e", "f", "g", "h", "i", "j", "k", "l", "m",
              "n", "o", "p", "q", "r", "s", "t", "u", "v", "w", "x", "y", "z">>
UpperChars == Range(UpperSeq)
DigitChars == Range(Digits)
WordChars == UpperChars \cup Range(LowerSeq) \cup DigitChars \cup {"_"}
SpaceChars == {" ", "\t", "\n", "\r"}

\* re.IGNORECASE compares the case-folded characters.
LowerOf == [c \in UpperChars |-> LowerSeq[CHOOSE i \in DOMAIN UpperSeq : UpperSeq[i] = c]]
Lower(c) == IF c \in UpperChars THEN LowerOf[c] ELSE c

\* The bullet character U+2022, written with its code point.
BulletChar == "u2022"

\* The character classes the patterns use: \w, \s, \d, [^:], [^\n], "." under DOTALL.
InClass(c, k) ==
  CASE k = "w" -> c \in WordChars
    [] k = "s" -> c \in SpaceChars
    [] k = "d" -> c \in DigitChars
    [] k = "notcolon" -> c # ":"
    [] k = "notnl" -> c # "\n"
    [] k = "any" -> TRUE
    [] k = "bulletfirst" -> c \notin ({"\n", BulletChar, "*", "-", "."} \cup DigitChars)

\* str.strip(): whitespace removed at both ends.
Strip(s) ==
  LET keep == {i \in DOMAIN s : s[i] \notin SpaceChars}
  IN  IF keep = {} THEN <<>> ELSE SubSeq(s, MinOf(keep), MaxOf(keep))

\* int(): the value of a string of decimal digits.
DigitValue(c) == (CHOOSE i \in DOMAIN Digits : Digits[i] = c) - 1
RECURSIVE ParseInt(_)
ParseInt(ds) ==
  IF ds = <<>> THEN 0
  ELSE 10 * ParseInt(SubSeq(ds, 1, Len(ds) - 1)) + DigitValue(ds[Len(ds)])

(***************************************************************************)
(* Regular expressions of Python's re: syntax trees.                       *)
(***************************************************************************)
Cls(k) == [t |-> "cls", k |-> k]
Lit(cs) == [t |-> "lit", cs |-> cs]
LitExact(cs) == [t |-> "xlit", cs |-> cs]
Cat(xs) == [t |-> "cat", xs |-> xs]
Alt(xs) == [t |-> "alt", xs |-> xs]
Opt(x) == [t |-> "opt", x |-> x]
Star(k) == [t |-> "star", k |-> k]
Plus(k) == Cat(<<Cls(k), Star(k)>>)
LazyStar(k) == [t |-> "lazystar", k |-> k]
LazyPlus(k) == Cat(<<Cls(k), LazyStar(k)>>)
Grp(n, x) == Cat(<<[t |-> "open", n |-> n], x, [t |-> "close", n |-> n]>>)
Bol == [t |-> "bol"]
Eol == [t |-> "eol"]
WordBoundary == [t |-> "wb"]

Fail == <<>>
NoCaps == <<<<0, 0>>, <<0, 0>>>>

\* The number of consecutive characters of class k in s from position i.
RunLen(s, i, k) ==
  LET stop == CHOOSE j \in i..(Len(s) + 1) :
                /\ j = Len(s) + 1 \/ ~InClass(s[j], k)
                /\ \A y \in i..(j - 1) : InClass(s[y], k)
  IN  stop - i

IsWordAt(s, i) == i >= 1 /\ i <= Len(s) /\ s[i] \in WordChars

\* The backtracking match of the nodes of stack, in order, against s from
\* position i: Fail, or <<end, captures>> of the first match in the order
\* of re (a greedy quantifier tries the longest run first, a lazy one the
\* shortest, an alternation its branches left to right).
RECURSIVE Match(_, _, _, _), MatchAlt(_, _, _, _, _)
RECURSIVE MatchLongest(_, _, _, _, _, _), MatchShortest(_, _, _, _, _, _)
Match(s, stack, i, caps) ==
  IF stack = <<>> THEN <<i, caps>>
  ELSE
    LET nd == Head(stack)
        rest == Tail(stack)
    IN
    CASE nd.t = "cls" ->
           IF i <= Len(s) /\ InClass(s[i], nd.k) THEN Match(s, rest, i + 1, caps) ELSE Fail
      [] nd.t = "lit" ->
           IF /\ i + Len(nd.cs) - 1 <= Len(s)
              /\ \A j \in 1..Len(nd.cs) : Lower(s[i + j - 1]) = Lower(nd.cs[j])
           THEN Match(s, rest, i + Len(nd.cs), caps)
           ELSE Fail
      [] nd.t = "xlit" ->
           IF /\ i + Len(nd.cs) - 1 <= Len(s)
              /\ \A j \in 1..Len(nd.cs) : s[i + j - 1] = nd.cs[j]
           THEN Match(s, rest, i + Len(nd.cs), caps)
           ELSE Fail
      [] nd.t = "cat" -> Match(s, nd.xs \o rest, i, caps)
      [] nd.t = "alt" -> MatchAlt(s, nd.xs, rest, i, caps)
      [] nd.t = "opt" ->
           LET r == Match(s, <<nd.x>> \o rest, i, caps)
           IN  IF r # Fail THEN r ELSE Match(s, rest, i, caps)
      [] nd.t = "star" -> MatchLongest(s, rest, i, 0, RunLen(s, i, nd.k), caps)
      [] nd.t = "lazystar" -> MatchShortest(s, rest, i, 0, RunLen(s, i, nd.k), caps)
      [] nd.t = "open" -> Match(s, rest, i, [caps EXCEPT ![nd.n] = <<i, i>>])
      [] nd.t = "close" -> Match(s, rest, i, [caps EXCEPT ![nd.n] = <<caps[nd.n][1], i>>])
      [] nd.t = "bol" -> IF i = 1 THEN Match(s, rest, i, caps) ELSE Fail
      [] nd.t = "eol" ->
           IF i = Len(s) + 1 \/ (i = Len(s) /\ s[i] = "\n")
           THEN Match(s, rest, i, caps)
           ELSE Fail
      [] nd.t = "wb" ->
           IF IsWordAt(s, i - 1) # IsWordAt(s, i) THEN Match(s, rest, i, caps) ELSE Fail
MatchAlt(s, xs, rest, i, caps) ==
  IF xs = <<>> THEN Fail
  ELSE LET r == Match(s, <<Head(xs)>> \o rest, i, caps)
       IN  IF r # Fail THEN r ELSE MatchAlt(s, Tail(xs), rest, i, caps)

\* A greedy quantifier that may repeat lo..hi times: the longest repetition
\* after which the rest matches (the upper half of the range is tried first).
MatchLongest(s, rest, i, lo, hi, caps) ==
  IF lo = hi THEN Match(s, rest, i + lo, caps)
  ELSE LET mid == (lo + hi) \div 2
           r == MatchLongest(s, rest, i, mid + 1, hi, caps)
       IN  IF r # Fail THEN r ELSE MatchLongest(s, rest, i, lo, mid, caps)
\* A lazy quantifier: the shortest repetition after which the rest matches.
MatchShortest(s, rest, i, lo, hi, caps) ==
  IF lo = hi THEN Match(s, rest, i + lo, caps)
  ELSE LET mid == (lo + hi) \div 2
           r == MatchShortest(s, rest, i, lo, mid, caps)
       IN  IF r # Fail THEN r ELSE MatchShortest(s, rest, i, mid + 1, hi, caps)

\* re.search(pattern, s) from position from: Fail or <<start, end, captures>>
\* of the leftmost match.
RECURSIVE SearchIn(_, _, _, _)
SearchIn(s, re, lo, hi) ==
  IF lo > hi THEN Fail
  ELSE IF lo = hi
  THEN LET r == Match(s, <<re>>, lo, NoCaps)
       IN  IF r # Fail THEN <<lo>> \o r ELSE Fail
  ELSE LET mid == (lo + hi) \div 2
           r == SearchIn(s, re, lo, mid)
       IN  IF r # Fail THEN r ELSE SearchIn(s, re, mid + 1, hi)
Search(s, re, from) == SearchIn(s, re, from, Len(s) + 1)

\* match.group(n)
Group(s, m, n) == SubSeq(s, m[3][n][1], m[3][n][2] - 1)

\* re.findall(pattern, s) for a pattern of two groups: the groups of the
\* non-overlapping matches, left to right, each with the position it starts at.
RECURSIVE FindAll(_, _, _)
FindAll(s, re, from) ==
  LET m == Search(s, re, from)
  IN  IF m = Fail THEN <<>>
      ELSE <<[groups |-> <<Group(s, m, 1), Group(s, m, 2)>>, at |-> m[1]]>>
             \o FindAll(s, re, IF m[2] > m[1] THEN m[2] ELSE m[2] + 1)

(***************************************************************************)
(* extract_required_skills (tools/jd_parser.py).                           *)
(***************************************************************************)
SkillName == Cat(<<Plus("w"), Opt(Cat(<<Plus("s"), Plus("w")>>))>>)
YearsWord == Alt(<<Lit(<<"y", "e", "a", "r", "s">>), Lit(<<"y", "r", "s">>)>>)
OptPlusSign == Opt(Lit(<<"+">>))

\* r"(\w+(?:\s+\w+)?):\s*(\d+)(?:\+)?\s*(?:years|yrs)"
PatColon ==
  Cat(<<Grp(1, SkillName), Lit(<<":">>), Star("s"), Grp(2, Plus("d")), OptPlusSign,
        Star("s"), YearsWord>>)
\* r"(\w+(?:\s+\w+)?)\s*\((\d+)(?:\+)?\s*(?:years|yrs)?\)"
PatParen ==
  Cat(<<Grp(1, SkillName), Star("s"), Lit(<<"(">>), Grp(2, Plus("d")), OptPlusSign,
        Star("s"), Opt(YearsWord), Lit(<<")">>)>>)
\* r"(\w+(?:\s+\w+)?)\s*(?:with)?\s*(\d+)(?:\+)?\s*(?:years|yrs)"
PatWith ==
  Cat(<<Grp(1, SkillName), Star("s"), Opt(Lit(<<"w", "i", "t", "h">>)), Star("s"), Grp(2, Plus("d")),
        OptPlusSign, Star("s"), YearsWord>>)
\* r"(\d+)(?:\+)?\s*(?:years|yrs)(?:\s*of)?\s*(\w+(?:\s+\w+)?)"
PatYearsOf ==
  Cat(<<Grp(1, Plus("d")), OptPlusSign, Star("s"), YearsWord,
        Opt(Cat(<<Star("s"), Lit(<<"o", "f">>)>>)), Star("s"), Grp(2, SkillName)>>)

patterns == <<PatColon, PatParen, PatWith, PatYearsOf>>

common_skills ==
  << <<"P", "y", "t", "h", "o", "n">>,
     <<"J", "a", "v", "a">>,
     <<"J", "a", "v", "a", "S", "c", "r", "i", "p", "t">>,
     <<"T", "y", "p", "e", "S", "c", "r", "i", "p", "t">>,
     <<"C", "+", "+">>,
     <<"C", "#">>,
     <<"P", "H", "P">>,
     <<"R", "u", "b", "y">>,
     <<"G", "o">>,
     <<"S", "Q", "L">>,
     <<"N", "o", "S", "Q", "L">>,
     <<"M", "o", "n", "g", "o", "D", "B">>,
     <<"P", "o", "s", "t", "g", "r", "e", "S", "Q", "L">>,
     <<"M", "y", "S", "Q", "L">>,
     <<"R", "e", "d", "i", "s">>,
     <<"A", "W", "S">>,
     <<"A", "z", "u", "r", "e">>,
     <<"G", "C", "P">>,
     <<"D", "o", "c", "k", "e", "r">>,
     <<"K", "u", "b", "e", "r", "n", "e", "t", "e", "s">>,
     <<"M", "L">>,
     <<"A", "I">>,
     <<"M", "a", "c", "h", "i", "n", "e", " ", "L", "e", "a", "r", "n", "i", "n", "g">>,
     <<"D", "e", "e", "p", " ", "L", "e", "a", "r", "n", "i", "n", "g">>,
     <<"N", "L", "P">>,
     <<"R", "e", "a", "c", "t">>,
     <<"A", "n", "g", "u", "l", "a", "r">>,
     <<"V", "u", "e">>,
     <<"N", "o", "d", "e", ".", "j", "s">>,
     <<"D", "j", "a", "n", "g", "o">>,
     <<"F", "l", "a", "s", "k">>,
     <<"F", "a", "s", "t", "A", "P", "I">>,
     <<"S", "p", "r", "i", "n", "g">>,
     <<"D", "e", "v", "O", "p", "s">>,
     <<"C", "I", "/", "C", "D">>,
     <<"G", "i", "t">>,
     <<"J", "e", "n", "k", "i", "n", "s">>,
     <<"T", "e", "r", "r", "a", "f", "o", "r", "m">>,
     <<"A", "n", "s", "i", "b", "l", "e">>,
     <<"A", "g", "i", "l", "e">>,
     <<"S", "c", "r", "u", "m">> >>

\* A dict that keeps the first value written for a key.
PutSkillIfAbsent(d, skill, years) ==
  [k \in DOMAIN d \cup {skill} |-> IF k \in DOMAIN d THEN d[k] ELSE years]

\* skills[skill] = years
PutSkill(d, skill, years) ==
  [k \in DOMAIN d \cup {skill} |-> IF k = skill THEN years ELSE d[k]]

\* What one match of patterns[p] writes: the groups are swapped for the last
\* pattern, the skill is stripped, the years converted to an integer.
MatchEntry(p, match) ==
  LET skill == IF p = Len(patterns) THEN match.groups[2] ELSE match.groups[1]
      years == IF p = Len(patterns) THEN match.groups[1] ELSE match.groups[2]
  IN  [skill |-> Strip(skill), years |-> ParseInt(Strip(years)), pattern |-> p, at |-> match.at]

\* The entries of the matches of patterns[p] in s, in the order of re.findall.
PatternEntries(s, p) ==
  LET ms == FindAll(s, patterns[p], 1)
  IN  [i \in DOMAIN ms |-> MatchEntry(p, ms[i])]

\* The inner loop: the entries written into the dict one after the other.
RECURSIVE WriteAll(_, _)
WriteAll(d, entries) ==
  IF entries = <<>> THEN d
  ELSE WriteAll(PutSkill(d, entries[1].skill, entries[1].years), Tail(entries))

\* re.search(r'\b' + re.escape(skill) + r'\b', text, re.IGNORECASE)
VocabularyHit(s, term) == Search(s, Cat(<<WordBoundary, Lit(term), WordBoundary>>), 1) # Fail

\* The fallback loop over common_skills: every term found maps to 1.
VocabularySkills(s) ==
  LET found == {i \in DOMAIN common_skills : VocabularyHit(s, common_skills[i])}
  IN  [k \in {common_skills[i] : i \in found} |-> 1]

\* The job-description texts given to the extractors: up to MaxMentions
\* mentions, joined by a blank or a line break.
MaxMentions == 2
MentionPython3 == <<"P", "y", "t", "h", "o", "n", ":", " ", "3", " ", "y", "e", "a", "r", "s">>
MentionJava5 == <<"J", "a", "v", "a", " ", "(", "5", "+", " ", "y", "e", "a", "r", "s", ")">>
MentionPython10 == <<"P", "y", "t", "h", "o", "n", ":", " ", "1", "0", " ", "y", "e", "a", "r", "s">>
MentionPython0 == <<"P", "y", "t", "h", "o", "n", ":", " ", "0", " ", "y", "e", "a", "r", "s">>
MentionYearsOfJava == <<"4", "+", " ", "y", "e", "a", "r", "s", " ", "o", "f", " ", "J", "a", "v", "a">>
MentionDocker == <<"D", "o", "c", "k", "e", "r">>
MentionCpp == <<"C", "+", "+">>
Mentions ==
  {MentionPython3, MentionJava5, MentionPython10, MentionPython0, MentionYearsOfJava,
   MentionDocker, MentionCpp}
Separators == {<<" ">>, <<"\n">>}
RECURSIVE TextsOf(_)
TextsOf(n) ==
  IF n = 0 THEN {<<>>}
  ELSE LET shorter == TextsOf(n - 1)
       IN  shorter \cup {IF t = <<>> THEN m ELSE t \o sep \o m :
                           t \in shorter, sep \in Separators, m \in Mentions}
SkillTexts == TextsOf(MaxMentions)

NoFile == "NoFile"
ReaderIdle ==
  /\ fs = <<>>
  /\ rpath = <<>>
  /\ rpc = "idle"
  /\ rfn = "none"
  /\ rfitz = "none"
  /\ renc = 1
  /\ rtried = <<>>
  /\ rresult = <<>>
SkillsIdle ==
  /\ pidx = 1
  /\ skills = <<>>
  /\ writes = <<>>
  /\ fallback = FALSE
  /\ skpc = "idle"
TitleIdle ==
  /\ tpc = "idle"
  /\ tidx = 1
  /\ title = <<>>
SectionsIdle ==
  /\ epc = "idle"
  /\ ekind = "none"
  /\ section_text = <<>>
  /\ items = <<>>
CallsIdle ==
  /\ calls = <<>>
  /\ kept = <<>>
BoundaryIdle ==
  /\ bfiles = <<>>
  /\ bkb = "none"
  /\ bcall = "none"
  /\ bresult = <<>>
  /\ bmongo = "none"
ToolsIdle ==
  /\ rtfs = <<>>
  /\ rtfn = "none"
  /\ rtarg = ""
  /\ rtpc = "idle"
  /\ rtopened = <<>>
  /\ pdf_files = <<>>
  /\ rtidx = 1
  /\ results = <<>>
  /\ rtresult = <<>>
CopiesIdle ==
  /\ cbytes = <<>>
  /\ copies = <<>>
FilesIdle ==
  /\ fmfs = <<>>
  /\ fmbefore = <<>>
  /\ fmcall = <<>>
  /\ fmresult = <<>>
EnvelopeIdle ==
  /\ payload = <<>>
  /\ default_extra = <<>>
  /\ ecall = <<>>
  /\ envelope = <<>>
JDIdle ==
  /\ jfs = <<>>
  /\ jfn = "none"
  /\ jarg = <<>>
  /\ jpc = "idle"
  /\ jd_content = <<>>
  /\ jidx = 0
  /\ jrec = <<>>
  /\ jresult = <<>>
  /\ jmongo = "none"

\* The variables of every component but one, and their idle values: the
\* frame of that one component's actions and initial states.
outsideReader == <<skillVars, titleVars, sectionVars, callVars, jdVars, envelopeVars, boundaryVars, toolVars, copyVars, fileVars>>
outsideSkills == <<readerVars, titleVars, sectionVars, callVars, jdVars, envelopeVars, boundaryVars, toolVars, copyVars, fileVars>>
outsideTitle == <<readerVars, skillVars, sectionVars, callVars, jdVars, envelopeVars, boundaryVars, toolVars, copyVars, fileVars>>
outsideSections == <<readerVars, skillVars, titleVars, callVars, jdVars, envelopeVars, boundaryVars, toolVars, copyVars, fileVars>>
outsideCalls == <<readerVars, skillVars, titleVars, sectionVars, jdVars, envelopeVars, boundaryVars, toolVars, copyVars, fileVars>>
outsideJD == <<readerVars, skillVars, titleVars, sectionVars, callVars, envelopeVars, boundaryVars, toolVars, copyVars, fileVars>>
outsideEnvelope == <<readerVars, skillVars, titleVars, sectionVars, callVars, jdVars, boundaryVars, toolVars, copyVars, fileVars>>
outsideBoundary == <<readerVars, skillVars, titleVars, sectionVars, callVars, jdVars, envelopeVars, toolVars, copyVars, fileVars>>
outsideTools == <<readerVars, skillVars, titleVars, sectionVars, callVars, jdVars, envelopeVars, boundaryVars, copyVars, fileVars>>
outsideCopies == <<readerVars, skillVars, titleVars, sectionVars, callVars, jdVars, envelopeVars, boundaryVars, toolVars, fileVars>>
outsideFiles == <<readerVars, skillVars, titleVars, sectionVars, callVars, jdVars, envelopeVars, boundaryVars, toolVars, copyVars>>
OutsideReaderIdle == SkillsIdle /\ TitleIdle /\ SectionsIdle /\ CallsIdle /\ JDIdle /\ EnvelopeIdle /\ BoundaryIdle /\ ToolsIdle /\ CopiesIdle /\ FilesIdle
OutsideSkillsIdle == ReaderIdle /\ TitleIdle /\ SectionsIdle /\ CallsIdle /\ JDIdle /\ EnvelopeIdle /\ BoundaryIdle /\ ToolsIdle /\ CopiesIdle /\ FilesIdle
OutsideTitleIdle == ReaderIdle /\ SkillsIdle /\ SectionsIdle /\ CallsIdle /\ JDIdle /\ EnvelopeIdle /\ BoundaryIdle /\ ToolsIdle /\ CopiesIdle /\ FilesIdle
OutsideSectionsIdle == ReaderIdle /\ SkillsIdle /\ TitleIdle /\ CallsIdle /\ JDIdle /\ EnvelopeIdle /\ BoundaryIdle /\ ToolsIdle /\ CopiesIdle /\ FilesIdle
OutsideCallsIdle == ReaderIdle /\ SkillsIdle /\ TitleIdle /\ SectionsIdle /\ JDIdle /\ EnvelopeIdle /\ BoundaryIdle /\ ToolsIdle /\ CopiesIdle /\ FilesIdle
OutsideJDIdle == ReaderIdle /\ SkillsIdle /\ TitleIdle /\ SectionsIdle /\ CallsIdle /\ EnvelopeIdle /\ BoundaryIdle /\ ToolsIdle /\ CopiesIdle /\ FilesIdle
OutsideEnvelopeIdle == ReaderIdle /\ SkillsIdle /\ TitleIdle /\ SectionsIdle /\ CallsIdle /\ JDIdle /\ BoundaryIdle /\ ToolsIdle /\ CopiesIdle /\ FilesIdle
OutsideBoundaryIdle == ReaderIdle /\ SkillsIdle /\ TitleIdle /\ SectionsIdle /\ CallsIdle /\ JDIdle /\ EnvelopeIdle /\ ToolsIdle /\ CopiesIdle /\ FilesIdle
OutsideToolsIdle == ReaderIdle /\ SkillsIdle /\ TitleIdle /\ SectionsIdle /\ CallsIdle /\ JDIdle /\ EnvelopeIdle /\ BoundaryIdle /\ CopiesIdle /\ FilesIdle
OutsideCopiesIdle == ReaderIdle /\ SkillsIdle /\ TitleIdle /\ SectionsIdle /\ CallsIdle /\ JDIdle /\ EnvelopeIdle /\ BoundaryIdle /\ ToolsIdle /\ FilesIdle
OutsideFilesIdle == ReaderIdle /\ SkillsIdle /\ TitleIdle /\ SectionsIdle /\ CallsIdle /\ JDIdle /\ EnvelopeIdle /\ BoundaryIdle /\ ToolsIdle /\ CopiesIdle

\* `if not skills`
NoSkills(d) == DOMAIN d = {}

SkillsInit ==
  /\ text \in SkillTexts
  /\ pidx = 1
  /\ skills = <<>>
  /\ writes = <<>>
  /\ fallback = FALSE
  /\ skpc = "patterns"
  /\ OutsideSkillsIdle

\* One turn of `for pattern in patterns`: every match of the pattern is written.
ApplyPattern ==
  /\ skpc = "patterns"
  /\ pidx <= Len(patterns)
  /\ LET entries == PatternEntries(text, pidx)
     IN  /\ skills' = WriteAll(skills, entries)
         /\ writes' = writes \o entries
  /\ pidx' = pidx + 1
  /\ skpc' = IF pidx = Len(patterns) THEN "check" ELSE "patterns"
  /\ UNCHANGED <<text, fallback, outsideSkills>>

\* `if not skills:` taken: the vocabulary scan fills the dict, which is returned.
VocabularyFallback ==
  /\ skpc = "check"
  /\ NoSkills(skills)
  /\ skills' = VocabularySkills(text)
  /\ fallback' = TRUE
  /\ skpc' = "done"
  /\ UNCHANGED <<text, pidx, writes, outsideSkills>>

\* `if not skills:` not taken: the dict of the patterns is returned.
ReturnSkills ==
  /\ skpc = "check"
  /\ ~NoSkills(skills)
  /\ skpc' = "done"
  /\ UNCHANGED <<text, pidx, skills, writes, fallback, outsideSkills>>

SkillsNext == ApplyPattern \/ VocabularyFallback \/ ReturnSkills
SpecSkills == SkillsInit /\ [][SkillsNext]_vars

(***************************************************************************)
(* The content reader (tools/pdf_utils.py).                                *)
(***************************************************************************)
\* File contents: up to MaxLen bytes out of FileBytes (blank, "A", CR, and
\* bytes above 0x7F: 0x85, 0xA0, and the UTF-8 lead bytes 0xC2, 0xC3).
MaxLen == 2
FileBytes == {32, 65, 13, 133, 160, 194, 195}
RECURSIVE BytesUpTo(_)
BytesUpTo(n) ==
  IF n = 0 THEN {<<>>}
  ELSE LET shorter == BytesUpTo(n - 1)
       IN  shorter \cup {Append(bs, b) : bs \in shorter, b \in FileBytes}
Contents == BytesUpTo(MaxLen)

PathCvPdf == <<"c", "v", ".", "p", "d", "f">>
PathCvPdfUpper == <<"C", "V", ".", "P", "D", "F">>
PathJdTxt == <<"j", "d", ".", "t", "x", "t">>
PathDotPdf == <<".", "p", "d", "f">>
Paths == {PathCvPdf, PathCvPdfUpper, PathJdTxt, PathDotPdf}

\* path.exists()
FileExists(f, p) == f[p] # NoFile

\* open(path, 'r', encoding=...) and open(path, 'rb'): the filesystem after
\* the file was opened for reading and closed.
OpenForWriting(f, p) == [f EXCEPT ![p] = <<>>]
OpenForReading(f, p) == f

\* PurePath.suffix: from the last dot of the name, unless the name starts or
\* ends with it.
Suffix(name) ==
  LET dots == {i \in DOMAIN name : name[i] = "."}
  IN  IF dots = {} THEN <<>>
      ELSE LET i == MaxOf(dots)
           IN  IF i > 1 /\ i < Len(name) THEN SubSeq(name, i, Len(name)) ELSE <<>>
\* str.lower()
LowerStr(s) == [i \in DOMAIN s |-> Lower(s[i])]
IsPdfSuffixCaseSensitive(p) == Suffix(p) = <<".", "p", "d", "f">>
\* path.suffix.lower() == '.pdf'
IsPdfSuffix(p) == LowerStr(Suffix(p)) = <<".", "p", "d", "f">>

\* str.isspace() of a code point; str.strip() of a decoded text.
UnicodeSpace ==
  (9..13) \cup (28..32) \cup {133, 160, 5760} \cup (8192..8202) \cup {8232, 8233, 8239, 8287, 12288}
StripText(t) ==
  LET keep == {i \in DOMAIN t : t[i] \notin UnicodeSpace}
  IN  IF keep = {} THEN <<>> ELSE SubSeq(t, MinOf(keep), MaxOf(keep))

\* UTF-8: the length of the sequence a lead byte announces (0: no lead byte).
Utf8Need(b) ==
  CASE b < 128 -> 1
    [] b \in 194..223 -> 2
    [] b \in 224..239 -> 3
    [] b \in 240..244 -> 4
    [] OTHER -> 0
Utf8SecondOk(lead, b) ==
  CASE lead = 224 -> b \in 160..191
    [] lead = 237 -> b \in 128..159
    [] lead = 240 -> b \in 144..191
    [] lead = 244 -> b \in 128..143
    [] OTHER -> b \in 128..191
\* The number of bytes from position i that form a valid start of one sequence.
Utf8Prefix(bs, i) ==
  LET need == Utf8Need(bs[i])
      two == need >= 2 /\ i + 1 <= Len(bs) /\ Utf8SecondOk(bs[i], bs[i + 1])
      three == two /\ need >= 3 /\ i + 2 <= Len(bs) /\ bs[i + 2] \in 128..191
      four == three /\ need = 4 /\ i + 3 <= Len(bs) /\ bs[i + 3] \in 128..191
  IN  IF need = 0 THEN 0 ELSE IF four THEN 4 ELSE IF three THEN 3 ELSE IF two THEN 2 ELSE 1
Utf8CodePoint(bs, i, n) ==
  CASE n = 1 -> bs[i]
    [] n = 2 -> (bs[i] - 192) * 64 + (bs[i + 1] - 128)
    [] n = 3 -> (bs[i] - 224) * 4096 + (bs[i + 1] - 128) * 64 + (bs[i + 2] - 128)
    [] n = 4 -> (bs[i] - 240) * 262144 + (bs[i + 1] - 128) * 4096 + (bs[i + 2] - 128) * 64
                  + (bs[i + 3] - 128)
ReplacementChar == 65533
\* bytes.decode('utf-8', errors=...) from position i: with "strict" ok is
\* FALSE at the first invalid sequence, with "replace" each maximal invalid
\* part becomes U+FFFD.
RECURSIVE Utf8From(_, _, _)
Utf8From(bs, i, errors) ==
  IF i > Len(bs) THEN [ok |-> TRUE, text |-> <<>>]
  ELSE LET n == Utf8Prefix(bs, i)
           whole == n > 0 /\ n = Utf8Need(bs[i])
           step == IF n = 0 THEN 1 ELSE n
           tail == Utf8From(bs, i + step, errors)
       IN  IF whole
           THEN [ok |-> tail.ok, text |-> <<Utf8CodePoint(bs, i, n)>> \o tail.text]
           ELSE IF errors = "replace"
                THEN [ok |-> tail.ok, text |-> <<ReplacementChar>> \o tail.text]
                ELSE [ok |-> FALSE, text |-> <<>>]

\* cp1252: the code points of the bytes 0x80..0x9F (0: not assigned).
Cp1252High ==
  <<8364, 0, 8218, 402, 8222, 8230, 8224, 8225, 710, 8240, 352, 8249, 338, 0, 381, 0,
    0, 8216, 8217, 8220, 8221, 8226, 8211, 8212, 732, 8482, 353, 8250, 339, 0, 382, 376>>
Cp1252Of(b) == IF b \in 128..159 THEN Cp1252High[b - 127] ELSE b

\* bytes.decode(encoding): [ok, text]; ok is FALSE for a UnicodeDecodeError.
Decode(encoding, bs) ==
  CASE encoding = "utf-8" -> Utf8From(bs, 1, "strict")
    [] encoding \in {"latin-1", "iso-8859-1"} -> [ok |-> TRUE, text |-> [i \in DOMAIN bs |-> bs[i]]]
    [] encoding = "cp1252" ->
         IF \E i \in DOMAIN bs : Cp1252Of(bs[i]) = 0
         THEN [ok |-> FALSE, text |-> <<>>]
         ELSE [ok |-> TRUE, text |-> [i \in DOMAIN bs |-> Cp1252Of(bs[i])]]

\* Text mode (newline=None): "\r\n" and "\r" are read as "\n".
RECURSIVE UniversalNewlines(_)
UniversalNewlines(t) ==
  IF t = <<>> THEN <<>>
  ELSE IF t[1] = 13
       THEN <<10>> \o UniversalNewlines(IF Len(t) >= 2 /\ t[2] = 10 THEN SubSeq(t, 3, Len(t))
                                        ELSE Tail(t))
       ELSE <<t[1]>> \o UniversalNewlines(Tail(t))

\* with open(path, 'r', encoding=encoding) as f: f.read()
ReadText(encoding, bs) ==
  LET d == Decode(encoding, bs)
  IN  [ok |-> d.ok, text |-> UniversalNewlines(d.text)]

\* open(path, 'rb').read().decode('utf-8', errors='replace')
ReadLossy(bs) == Utf8From(bs, 1, "replace").text

\* for encoding in [...]
encodingsCp1252First == <<"utf-8", "cp1252", "latin-1", "iso-8859-1">>
encodingsLatinFirst == <<"latin-1", "utf-8", "cp1252", "iso-8859-1">>
encodings == <<"utf-8", "latin-1", "cp1252", "iso-8859-1">>

\* `except UnicodeDecodeError: continue`: the exceptions the loop swallows.
CaughtNothing(exc) == FALSE
Caught(exc) == exc = "UnicodeDecodeError"

\* What PyMuPDF can do with a file: the import fails, opening or reading
\* raises, or it yields the texts of the pages (code points).
PageLists == {<<>>, <<<<32>>>>, <<<<65>>, <<66>>>>, <<<<32>>, <<66>>>>}
FitzOutcomes ==
  {[kind |-> "ImportError", pages |-> <<>>], [kind |-> "Exception", pages |-> <<>>]}
    \cup {[kind |-> "pages", pages |-> ps] : ps \in PageLists}
\* content = ""; for page in doc: content += page.get_text()
RECURSIVE PagesText(_)
PagesText(pages) ==
  IF pages = <<>> THEN <<>> ELSE PagesText(SubSeq(pages, 1, Len(pages) - 1)) \o pages[Len(pages)]

NoFitz == [kind |-> "none", pages |-> <<>>]
NoResult == [kind |-> "none", text |-> <<>>, exc |-> "none"]
Returned(t) == [kind |-> "text", text |-> t, exc |-> "none"]
Raised(e) == [kind |-> "raise", text |-> <<>>, exc |-> e]
ReaderFunctions == {"read_file_content", "read_pdf_content", "read_text_file"}

ReaderInit ==
  /\ \E bs \in Contents, missing \in SUBSET Paths :
       /\ Cardinality(missing) <= 1
       /\ fs = [p \in Paths |-> IF p \in missing THEN NoFile ELSE bs]
  /\ rpath = <<>>
  /\ rpc = "idle"
  /\ rfn = "none"
  /\ rfitz = NoFitz
  /\ renc = 1
  /\ rtried = <<>>
  /\ rresult = NoResult
  /\ text = <<>>
  /\ OutsideReaderIdle

\* A caller calls one of the three functions on a path.
CallReader ==
  /\ rpc \in {"idle", "returned", "raised"}
  /\ \E fn \in ReaderFunctions, p \in Paths :
       /\ rfn' = fn
       /\ rpath' = p
       /\ rpc' = fn
  /\ rfitz' = NoFitz
  /\ renc' = 1
  /\ rtried' = <<>>
  /\ rresult' = NoResult
  /\ UNCHANGED <<fs, text, outsideReader>>

\* read_file_content: the existence check and the dispatch on the suffix.
FileContentDispatch ==
  /\ rpc = "read_file_content"
  /\ IF ~FileExists(fs, rpath)
     THEN rpc' = "raised" /\ rresult' = Raised("FileNotFoundError")
     ELSE /\ rpc' = IF IsPdfSuffix(rpath) THEN "read_pdf_content" ELSE "read_text_file"
          /\ UNCHANGED rresult
  /\ UNCHANGED <<fs, rpath, rfn, rfitz, renc, rtried, text, outsideReader>>

\* read_pdf_content: the existence check.
PdfCheckExists ==
  /\ rpc = "read_pdf_content"
  /\ IF ~FileExists(fs, rpath)
     THEN rpc' = "raised" /\ rresult' = Raised("FileNotFoundError")
     ELSE rpc' = "pdf_extract" /\ UNCHANGED rresult
  /\ UNCHANGED <<fs, rpath, rfn, rfitz, renc, rtried, text, outsideReader>>

\* read_pdf_content: the PyMuPDF attempt.  Text that is not blank is
\* returned; a failed import, an exception or blank text go on to the loop.
PdfExtract ==
  /\ rpc = "pdf_extract"
  /\ \E out \in FitzOutcomes :
       /\ rfitz' = out
       /\ IF out.kind = "pages" /\ StripText(PagesText(out.pages)) # <<>>
          THEN rpc' = "returned" /\ rresult' = Returned(PagesText(out.pages))
          ELSE rpc' = "pdf_encodings" /\ UNCHANGED rresult
  /\ rtried' = Append(rtried, "fitz")
  /\ fs' = OpenForReading(fs, rpath)
  /\ UNCHANGED <<rpath, rfn, renc, text, outsideReader>>

\* read_pdf_content: one turn of the loop over the encodings, or, after the
\* loop, the binary read with replacement.
PdfTryEncoding ==
  /\ rpc = "pdf_encodings"
  /\ IF renc <= Len(encodings)
     THEN LET r == ReadText(encodings[renc], fs[rpath])
          IN  /\ rtried' = Append(rtried, encodings[renc])
              /\ renc' = renc + 1
              /\ IF r.ok
                 THEN IF StripText(r.text) # <<>>
                      THEN rpc' = "returned" /\ rresult' = Returned(r.text)
                      ELSE UNCHANGED <<rpc, rresult>>
                 ELSE IF Caught("UnicodeDecodeError")
                      THEN UNCHANGED <<rpc, rresult>>
                      ELSE rpc' = "raised" /\ rresult' = Raised("UnicodeDecodeError")
     ELSE /\ rtried' = Append(rtried, "replace")
          /\ rpc' = "returned"
          /\ rresult' = Returned(ReadLossy(fs[rpath]))
          /\ UNCHANGED renc
  /\ fs' = OpenForReading(fs, rpath)
  /\ UNCHANGED <<rpath, rfn, rfitz, text, outsideReader>>

\* read_text_file: the existence check.
TextCheckExists ==
  /\ rpc = "read_text_file"
  /\ IF ~FileExists(fs, rpath)
     THEN rpc' = "raised" /\ rresult' = Raised("FileNotFoundError")
     ELSE rpc' = "text_encodings" /\ UNCHANGED rresult
  /\ UNCHANGED <<fs, rpath, rfn, rfitz, renc, rtried, text, outsideReader>>

\* read_text_file: one turn of the loop over the encodings (the first
\* decode without error is returned), or, after the loop, the binary read
\* with replacement.
TextTryEncoding ==
  /\ rpc = "text_encodings"
  /\ IF renc <= Len(encodings)
     THEN LET r == ReadText(encodings[renc], fs[rpath])
          IN  /\ rtried' = Append(rtried, encodings[renc])
              /\ renc' = renc + 1
              /\ IF r.ok
                 THEN rpc' = "returned" /\ rresult' = Returned(r.text)
                 ELSE IF Caught("UnicodeDecodeError")
                      THEN UNCHANGED <<rpc, rresult>>
                      ELSE rpc' = "raised" /\ rresult' = Raised("UnicodeDecodeError")
     ELSE /\ rtried' = Append(rtried, "replace")
          /\ rpc' = "returned"
          /\ rresult' = Returned(ReadLossy(fs[rpath]))
          /\ UNCHANGED renc
  /\ fs' = OpenForReading(fs, rpath)
  /\ UNCHANGED <<rpath, rfn, rfitz, text, outsideReader>>

ReaderNext ==
  \/ CallReader
  \/ FileContentDispatch
  \/ PdfCheckExists
  \/ PdfExtract
  \/ PdfTryEncoding
  \/ TextCheckExists
  \/ TextTryEncoding
Spec == ReaderInit /\ [][ReaderNext]_vars

(***************************************************************************)
(* Claims about the content reader.                                        *)
(***************************************************************************)
ReaderDone == rpc \in {"returned", "raised"}
TriedEncodings == SelectSeq(rtried, LAMBDA a : a # "fitz")
ReachedEncodings == \E i \in DOMAIN rtried : rtried[i] = "utf-8"
IsPrefix(a, b) == Len(a) <= Len(b) /\ a = SubSeq(b, 1, Len(a))
ListedOrder == <<"utf-8", "latin-1", "cp1252", "iso-8859-1">>

\* C1: read_file_content returns a string for every existing file, whatever
\* its bytes and extension, and raises FileNotFoundError if and only if the
\* path does not exist.
C1_TotalOnExistingFiles ==
  (ReaderDone /\ rfn = "read_file_content") =>
    /\ (rresult = Raised("FileNotFoundError")) <=> (fs[rpath] = NoFile)
    /\ fs[rpath] # NoFile => rresult.kind = "text"

\* C1's case: a .pdf whose extraction raised and whose bytes are not valid
\* UTF-8 went through every step down to the lossy decode and was returned.
C1_Witness ==
  /\ rpc = "returned"
  /\ rfn = "read_file_content"
  /\ rfitz.kind = "Exception"
  /\ ~Decode("utf-8", fs[rpath]).ok
  /\ rtried[Len(rtried)] = "replace"

\* The first encoding of the listed order that decodes bs without error.
FirstDecoding(bs) == MinOf({k \in DOMAIN ListedOrder : Decode(ListedOrder[k], bs).ok})
\* The encodings of the listed order whose decoding of bs is not blank.
NonBlankDecodings(bs) ==
  {k \in DOMAIN ListedOrder :
     /\ ReadText(ListedOrder[k], bs).ok
     /\ StripText(ReadText(ListedOrder[k], bs).text) # <<>>}

TextChain == rfitz.kind = "none" /\ ReachedEncodings
\* The steps of read_text_file after Latin-1.
AfterLatin1 == {"cp1252", "iso-8859-1", "replace"}
\* Every encoding failed on bs or decoded it to blank text.
NoEncodingGaveText(bs) == NonBlankDecodings(bs) = {}

\* C27, as claimed: read_text_file never goes past Latin-1: its result is
\* the UTF-8 decoding of the bytes when they are valid UTF-8 and their
\* Latin-1 decoding otherwise, and cp1252, iso-8859-1 and the lossy decode
\* are never executed; the lossy decode is reached only in
\* read_pdf_content, when every encoding failed or gave blank text.
C27_NothingAfterLatin1 ==
  /\ TextChain => \A i \in DOMAIN rtried : rtried[i] \notin AfterLatin1
  /\ (TextChain /\ rpc = "returned") =>
       rresult = Returned(IF Decode("utf-8", fs[rpath]).ok
                          THEN Decode("utf-8", fs[rpath]).text
                          ELSE Decode("latin-1", fs[rpath]).text)
  /\ (\E i \in DOMAIN rtried : rtried[i] = "replace") =>
       rfitz.kind # "none" /\ NoEncodingGaveText(fs[rpath])

\* C27, amended: as claimed, with the decoded text as text mode reads it:
\* the line ends "\r\n" and "\r" of the decoding are returned as "\n".
C27_NothingAfterLatin1TextMode ==
  /\ TextChain => \A i \in DOMAIN rtried : rtried[i] \notin AfterLatin1
  /\ (TextChain /\ rpc = "returned") =>
       rresult = Returned(UniversalNewlines(IF Decode("utf-8", fs[rpath]).ok
                                            THEN Decode("utf-8", fs[rpath]).text
                                            ELSE Decode("latin-1", fs[rpath]).text))
  /\ (\E i \in DOMAIN rtried : rtried[i] = "replace") =>
       rfitz.kind # "none" /\ NoEncodingGaveText(fs[rpath])

\* C27's case: read_text_file read bytes that are not valid UTF-8, with a
\* carriage return, and returned after the Latin-1 attempt.
C27_Witness ==
  /\ rpc = "returned"
  /\ rfn = "read_text_file"
  /\ fs[rpath] = <<13, 133>>
  /\ rtried = <<"utf-8", "latin-1">>
  /\ rresult = Returned(<<10, 133>>)

\* The paths whose suffix, compared case-insensitively, is ".pdf".
PdfPaths == {PathCvPdf, PathCvPdfUpper}
RECURSIVE PagesInOrder(_)
PagesInOrder(pages) == IF pages = <<>> THEN <<>> ELSE Head(pages) \o PagesInOrder(Tail(pages))
ExtractionGaveText == rfitz.kind = "pages" /\ StripText(PagesInOrder(rfitz.pages)) # <<>>

\* C4: read_file_content attempts the PDF extraction if and only if the
\* suffix is ".pdf" in any letter case; text that is not blank after
\* trimming is returned as the concatenation of the pages in page order
\* with no encoding tried; an extraction that raises, is unavailable or
\* gives blank text starts the encoding chain and the call does not fail.
C4_PdfExtractionBySuffix ==
  rfn = "read_file_content" =>
    /\ (\E i \in DOMAIN rtried : rtried[i] = "fitz") => rpath \in PdfPaths
    /\ (rpc = "returned" /\ rpath \in PdfPaths) => rtried[1] = "fitz"
    /\ (rpc = "returned" /\ ExtractionGaveText) =>
         rtried = <<"fitz">> /\ rresult = Returned(PagesInOrder(rfitz.pages))
    /\ (rpc = "returned" /\ rfitz.kind # "none" /\ ~ExtractionGaveText) =>
         Len(rtried) >= 2 /\ rtried[2] = "utf-8" /\ rresult.kind = "text"
    /\ (rpc = "raised") => ~FileExists(fs, rpath)

\* C4's case: a path with the suffix ".PDF" whose two pages were extracted.
C4_Witness ==
  /\ rpc = "returned"
  /\ rfn = "read_file_content"
  /\ rpath = PathCvPdfUpper
  /\ Len(rfitz.pages) = 2
  /\ rresult = Returned(<<65, 66>>)

\* C5: no step of read_file_content, read_pdf_content or read_text_file
\* changes the filesystem: the files and their contents stay as they were.
C5_ReaderReadOnly == [][fs' = fs]_vars

\* C5's case: a call that opened the file in every mode the reader uses
\* (PyMuPDF, the four text-mode reads, the binary read) has returned.
C5_Witness ==
  /\ rpc = "returned"
  /\ rtried = <<"fitz">> \o ListedOrder \o <<"replace">>
  /\ \E p \in Paths : fs[p] = NoFile

(***************************************************************************)
(* Claims about extract_required_skills.                                   *)
(***************************************************************************)
WordPython == <<"P", "y", "t", "h", "o", "n">>
WordJava == <<"J", "a", "v", "a">>
WordDocker == <<"D", "o", "c", "k", "e", "r">>

\* C6, as claimed: every value of the mapping returned by
\* extract_required_skills is an integer >= 1.
C6_EveryYearsAtLeastOne ==
  skpc = "done" => \A k \in DOMAIN skills : skills[k] \in Nat /\ skills[k] >= 1

\* C7, as claimed: a text whose only skill mentions are "Python: 3 years" and
\* "Java (5+ years)", on one line or on consecutive lines, yields exactly
\* {"Python": 3, "Java": 5}.
C7_PythonJavaRoundTrip ==
  (skpc = "done" /\ text \in {MentionPython3 \o sep \o MentionJava5 : sep \in Separators})
    => skills = [k \in {WordPython, WordJava} |-> IF k = WordPython THEN 3 ELSE 5]

\* A vocabulary term occurs in s as a whole word: in any letter case, delimited
\* by the ends of s or by characters that belong to no word.
OccursAsWord(s, term) ==
  \E p \in 1..Len(s) :
    /\ p + Len(term) - 1 <= Len(s)
    /\ \A j \in 1..Len(term) : Lower(s[p + j - 1]) = Lower(term[j])
    /\ ~IsWordAt(s, p - 1)
    /\ ~IsWordAt(s, p + Len(term))
TermsIn(s) == {common_skills[i] : i \in {j \in DOMAIN common_skills : OccursAsWord(s, common_skills[j])}}
WrittenSkills == {writes[i].skill : i \in DOMAIN writes}

\* C8, as claimed: the vocabulary fallback runs if and only if the four
\* patterns matched nothing; when a pattern matched, the result holds only
\* the skills the patterns wrote; when none matched, the result is exactly
\* the vocabulary terms found in the text, each mapped to 1.
C8_FallbackIffNoPatternMatch ==
  skpc = "done" =>
    /\ fallback <=> (writes = <<>>)
    /\ writes # <<>> => DOMAIN skills = WrittenSkills
    /\ writes = <<>> => skills = [k \in TermsIn(text) |-> 1]

\* C24, as claimed: when the vocabulary fallback ran, every term of the
\* vocabulary that occurs in the text as a whole word, in any letter case,
\* is a key of the result with the value 1, the terms that end in a
\* character of no word ("C++", "C#") included.
C24_VocabularyWholeWords ==
  (skpc = "done" /\ fallback) =>
    \A term \in TermsIn(text) : term \in DOMAIN skills /\ skills[term] = 1

\* C9: the writes happen pattern by pattern in the listed order and, within
\* a pattern, in document order; unless the fallback ran, the result has
\* one entry per distinct stripped skill name, and its value is the years
\* of the last write of that name.
C9_LastWriteWins ==
  /\ \A i, j \in DOMAIN writes :
       i < j => \/ writes[i].pattern < writes[j].pattern
                \/ writes[i].pattern = writes[j].pattern /\ writes[i].at < writes[j].at
  /\ \A i \in DOMAIN writes : writes[i].pattern < pidx
  /\ ~fallback =>
       /\ DOMAIN skills = WrittenSkills
       /\ \A k \in DOMAIN skills :
            skills[k] = writes[MaxOf({i \in DOMAIN writes : writes[i].skill = k})].years

\* C9's case: a skill written twice with different years; the later one stays.
C9_Witness ==
  /\ skpc = "done"
  /\ \E i, j \in DOMAIN writes :
       /\ i < j
       /\ writes[i].skill = writes[j].skill
       /\ writes[i].years # writes[j].years
       /\ skills[writes[j].skill] = writes[j].years
       /\ \A l \in DOMAIN writes : l > j => writes[l].skill # writes[j].skill

(***************************************************************************)
(* extract_job_title (tools/jd_parser.py).                                 *)
(***************************************************************************)
\* r"(?:Job Title|Position|Role):\s*([^\n]+)"
PatTitleLabel ==
  Cat(<<Alt(<<Lit(<<"J", "o", "b", " ", "T", "i", "t", "l", "e">>), Lit(<<"P", "o", "s", "i", "t", "i", "o", "n">>), Lit(<<"R", "o", "l", "e">>)>>), Lit(<<":">>), Star("s"),
        Grp(1, Plus("notnl"))>>)
\* r"^([^:]+?)(?:Job|Position|Role|Overview)"
PatTitleLeading ==
  Cat(<<Bol, Grp(1, LazyPlus("notcolon")),
        Alt(<<Lit(<<"J", "o", "b">>), Lit(<<"P", "o", "s", "i", "t", "i", "o", "n">>), Lit(<<"R", "o", "l", "e">>), Lit(<<"O", "v", "e", "r", "v", "i", "e", "w">>)>>)>>)
\* r"([^:]+?)\s+\d+[\+]?\s+[Yy]ears"
PatTitleYears ==
  Cat(<<Grp(1, LazyPlus("notcolon")), Plus("s"), Plus("d"), Opt(Lit(<<"+">>)), Plus("s"),
        Lit(<<"y", "e", "a", "r", "s">>)>>)
title_patterns == <<PatTitleLabel, PatTitleLeading, PatTitleYears>>

UndefinedRole == <<"U", "n", "d", "e", "f", "i", "n", "e", "d", " ", "R", "o", "l", "e">>
\* `if len(first_line) < 100`
TitleLimit == 100
ShortEnoughInclusive(line) == Len(line) <= TitleLimit
ShortEnough(line) == Len(line) < TitleLimit

\* str.split('\n')
RECURSIVE SplitLines(_)
SplitLines(s) ==
  LET breaks == {i \in DOMAIN s : s[i] = "\n"}
  IN  IF breaks = {} THEN <<s>>
      ELSE <<SubSeq(s, 1, MinOf(breaks) - 1)>> \o SplitLines(SubSeq(s, MinOf(breaks) + 1, Len(s)))

\* The lines after the loop: the first line of the stripped text if it is
\* short enough, else the sentinel.
FirstLineOrSentinel(s) ==
  LET first_line == SplitLines(Strip(s))[1]
  IN  IF ShortEnough(first_line) THEN first_line ELSE UndefinedRole

\* The job-description texts given to extract_job_title: up to MaxLines
\* short lines, and texts whose first line has about TitleLimit characters.
MaxLines == 2
LineRoleLabel == <<"R", "o", "l", "e", ":", " ", "D", "e", "v">>
LineOverview == <<"D", "e", "v", " ", "O", "v", "e", "r", "v", "i", "e", "w">>
LineYears == <<"D", "e", "v", " ", "5", "+", " ", "y", "e", "a", "r", "s">>
LinePlain == <<" ", "Q", "A", " ", "L", "e", "a", "d", " ">>
LinePositionLabel == <<"p", "o", "s", "i", "t", "i", "o", "n", ":", " ", " ", "Q", "A">>
TitleLines == {LineRoleLabel, LineOverview, LineYears, LinePlain, LinePositionLabel}
RECURSIVE LinesUpTo(_)
LinesUpTo(n) ==
  IF n = 0 THEN {<<>>}
  ELSE LET shorter == LinesUpTo(n - 1)
       IN  shorter \cup {IF t = <<>> THEN l ELSE t \o <<"\n">> \o l : t \in shorter, l \in TitleLines}
LongLine(n) == [i \in 1..n |-> "x"]
LongTexts ==
  {LongLine(n) \o rest :
     n \in {TitleLimit - 1, TitleLimit, TitleLimit + 1},
     rest \in {<<>>, <<"\n">> \o LinePlain, <<"\n">> \o LineRoleLabel}}
  \cup {LongLine(TitleLimit + 1) \o <<" ", "O", "v", "e", "r", "v", "i", "e", "w">>,
        LongLine(TitleLimit + 1) \o <<" ", "5", " ", "y", "e", "a", "r", "s">>,
        <<" ", " ">> \o LongLine(TitleLimit - 1)}
TitleTexts == LinesUpTo(MaxLines) \cup LongTexts

TitleInit ==
  /\ text \in TitleTexts
  /\ tpc = "patterns"
  /\ tidx = 1
  /\ title = <<>>
  /\ OutsideTitleIdle

\* One turn of `for pattern in title_patterns`: the stripped group 1 of a
\* match is returned, otherwise the next pattern is tried.
TryTitlePattern ==
  /\ tpc = "patterns"
  /\ tidx <= Len(title_patterns)
  /\ LET title_match == Search(text, title_patterns[tidx], 1)
     IN  IF title_match # Fail
         THEN /\ title' = Strip(Group(text, title_match, 1))
              /\ tpc' = "done"
              /\ UNCHANGED tidx
         ELSE /\ tidx' = tidx + 1
              /\ tpc' = IF tidx = Len(title_patterns) THEN "first_line" ELSE "patterns"
              /\ UNCHANGED title
  /\ UNCHANGED <<text, outsideTitle>>

\* No pattern matched: the first line or the sentinel is returned.
FirstLineFallback ==
  /\ tpc = "first_line"
  /\ title' = FirstLineOrSentinel(text)
  /\ tpc' = "done"
  /\ UNCHANGED <<text, tidx, outsideTitle>>

TitleNext == TryTitlePattern \/ FirstLineFallback
SpecTitle == TitleInit /\ [][TitleNext]_vars

(***************************************************************************)
(* Claims about extract_job_title.                                         *)
(***************************************************************************)
\* The strategies in the order of the claim: the explicit label, the
\* leading clause before Job/Position/Role/Overview, the leading clause
\* before "<N>+ years".
ListedStrategies == <<PatTitleLabel, PatTitleLeading, PatTitleYears>>
StrategyCapture(s, k) ==
  LET m == Search(s, ListedStrategies[k], 1)
  IN  IF m = Fail THEN Fail ELSE <<Strip(Group(s, m, 1))>>
\* The first line of the trimmed text: what precedes its first line break.
FirstLineOfTrimmed(s) ==
  LET t == Strip(s)
      breaks == {i \in DOMAIN t : t[i] = "\n"}
  IN  IF breaks = {} THEN t ELSE SubSeq(t, 1, MinOf(breaks) - 1)

\* C10: extract_job_title returns the trimmed capture of the first of the
\* strategies (a), (b), (c) that matches, whatever the later ones capture;
\* when none matches it returns the first line of the trimmed text if that
\* line has fewer than 100 characters and "Undefined Role" otherwise, also
\* for a first line of exactly 100 characters.
C10_FirstStrategyWins ==
  tpc = "done" =>
    LET caps == [k \in DOMAIN ListedStrategies |-> StrategyCapture(text, k)]
        hits == {k \in DOMAIN ListedStrategies : caps[k] # Fail}
    IN  IF hits # {}
        THEN title = caps[MinOf(hits)][1] /\ tidx = MinOf(hits)
        ELSE IF Len(FirstLineOfTrimmed(text)) <= 99
             THEN title = FirstLineOfTrimmed(text)
             ELSE title = UndefinedRole

\* C10's cases: strategy (a) matched after a line that strategies (b) and (c)
\* capture differently, and its capture was returned.
C10_Witness ==
  /\ tpc = "done"
  /\ tidx = 1
  /\ StrategyCapture(text, 2) # Fail
  /\ StrategyCapture(text, 3) # Fail
  /\ StrategyCapture(text, 2) # StrategyCapture(text, 1)
  /\ StrategyCapture(text, 3) # StrategyCapture(text, 1)
  /\ title = StrategyCapture(text, 1)[1]

\* The label words of strategy (a), each with its colon.
TitleLabels == <<<<"j", "o", "b", " ", "t", "i", "t", "l", "e", ":">>, <<"p", "o", "s", "i", "t", "i", "o", "n", ":">>, <<"r", "o", "l", "e", ":">>>>
OccursIn(s, word) ==
  \E p \in 1..Len(s) :
    /\ p + Len(word) - 1 <= Len(s)
    /\ \A j \in 1..Len(word) : Lower(s[p + j - 1]) = Lower(word[j])
HasTitleLabel(s) == \E k \in DOMAIN TitleLabels : OccursIn(s, TitleLabels[k])
\* The first line of the text as it is given: what precedes its first line break.
FirstLineOfText(s) ==
  LET breaks == {i \in DOMAIN s : s[i] = "\n"}
  IN  IF breaks = {} THEN s ELSE SubSeq(s, 1, MinOf(breaks) - 1)

\* C11, as claimed: a text with no "Job Title:", "Position:" or "Role:"
\* label whose first line is longer than 100 characters gives
\* "Undefined Role".
C11_LongFirstLineUndefined ==
  (tpc = "done" /\ ~HasTitleLabel(text) /\ Len(FirstLineOfText(text)) > 100)
    => title = UndefinedRole

(***************************************************************************)
(* extract_responsibilities and extract_qualifications                     *)
(* (tools/jd_parser.py).                                                   *)
(***************************************************************************)
\* r'(?:Responsibilities|RESPONSIBILITIES|Duties|DUTIES|You will).*?
\*   (?:Requirements|REQUIREMENTS|Qualifications|QUALIFICATIONS|$)', re.DOTALL
PatRespSection ==
  Cat(<<Alt(<<LitExact(<<"R", "e", "s", "p", "o", "n", "s", "i", "b", "i", "l", "i", "t", "i", "e", "s">>), LitExact(<<"R", "E", "S", "P", "O", "N", "S", "I", "B", "I", "L", "I", "T", "I", "E", "S">>), LitExact(<<"D", "u", "t", "i", "e", "s">>),
              LitExact(<<"D", "U", "T", "I", "E", "S">>), LitExact(<<"Y", "o", "u", " ", "w", "i", "l", "l">>)>>),
        LazyStar("any"),
        Alt(<<LitExact(<<"R", "e", "q", "u", "i", "r", "e", "m", "e", "n", "t", "s">>), LitExact(<<"R", "E", "Q", "U", "I", "R", "E", "M", "E", "N", "T", "S">>), LitExact(<<"Q", "u", "a", "l", "i", "f", "i", "c", "a", "t", "i", "o", "n", "s">>),
              LitExact(<<"Q", "U", "A", "L", "I", "F", "I", "C", "A", "T", "I", "O", "N", "S">>), Eol>>)>>)
\* r'(?:Requirements|REQUIREMENTS|Qualifications|QUALIFICATIONS).*?(?:Benefits|BENEFITS|$)', re.DOTALL
PatQualSection ==
  Cat(<<Alt(<<LitExact(<<"R", "e", "q", "u", "i", "r", "e", "m", "e", "n", "t", "s">>), LitExact(<<"R", "E", "Q", "U", "I", "R", "E", "M", "E", "N", "T", "S">>), LitExact(<<"Q", "u", "a", "l", "i", "f", "i", "c", "a", "t", "i", "o", "n", "s">>),
              LitExact(<<"Q", "U", "A", "L", "I", "F", "I", "C", "A", "T", "I", "O", "N", "S">>)>>),
        LazyStar("any"),
        Alt(<<LitExact(<<"B", "e", "n", "e", "f", "i", "t", "s">>), LitExact(<<"B", "E", "N", "E", "F", "I", "T", "S">>), Eol>>)>>)
\* r'(?:u2022|\*|\-|\d+\.)\s*([^\n u2022 \* \- \d \.][^\n]+)'
PatBullet ==
  Cat(<<Alt(<<LitExact(<<BulletChar>>), LitExact(<<"*">>), LitExact(<<"-">>),
              Cat(<<Plus("d"), LitExact(<<".">>)>>)>>),
        Star("s"),
        Grp(1, Cat(<<Cls("bulletfirst"), Plus("notnl")>>))>>)
\* r'responsibilities|duties' and r'requirements|qualifications', re.IGNORECASE
PatRespHeader == Alt(<<Lit(<<"r", "e", "s", "p", "o", "n", "s", "i", "b", "i", "l", "i", "t", "i", "e", "s">>), Lit(<<"d", "u", "t", "i", "e", "s">>)>>)
PatQualHeader == Alt(<<Lit(<<"r", "e", "q", "u", "i", "r", "e", "m", "e", "n", "t", "s">>), Lit(<<"q", "u", "a", "l", "i", "f", "i", "c", "a", "t", "i", "o", "n", "s">>)>>)

SectionKinds == {"extract_responsibilities", "extract_qualifications"}
SectionPattern(kind) == IF kind = "extract_responsibilities" THEN PatRespSection ELSE PatQualSection
HeaderPattern(kind) == IF kind = "extract_responsibilities" THEN PatRespHeader ELSE PatQualHeader

NoSection == <<"no section">>
\* re.search(section pattern, text, re.DOTALL) and .group(0)
FindSectionText(kind, s) ==
  LET m == Search(s, SectionPattern(kind), 1)
  IN  IF m = Fail THEN NoSection ELSE SubSeq(s, m[1], m[2] - 1)
\* re.findall(bullet pattern, section_text), each bullet stripped.
BulletItems(sec) ==
  LET found == FindAll(sec, PatBullet, 1)
  IN  [i \in DOMAIN found |-> Strip(found[i].groups[1])]
\* The branch without bullets: the stripped lines that are not empty,
\* without the first one if it is a header and not the only line.
LineItems(kind, sec) ==
  LET split == SplitLines(sec)
      stripped == [i \in DOMAIN split |-> Strip(split[i])]
      lines == SelectSeq(stripped, LAMBDA l : l # <<>>)
  IN  IF Len(lines) > 1 /\ Search(lines[1], HeaderPattern(kind), 1) # Fail
      THEN Tail(lines)
      ELSE lines

\* The whole function: `responsibilities = []`, extended with the bullets
\* or with the lines of the section, and returned.
NewList(left) == <<>>
ExtractSection(kind, s, left) ==
  LET sec == FindSectionText(kind, s)
      found == IF sec = NoSection THEN <<>>
               ELSE IF BulletItems(sec) # <<>> THEN BulletItems(sec)
               ELSE LineItems(kind, sec)
  IN  NewList(left) \o found
extract_responsibilities(s) == ExtractSection("extract_responsibilities", s, <<>>)
extract_qualifications(s) == ExtractSection("extract_qualifications", s, <<>>)

\* The job-description texts given to the section extractors: a start
\* header line, up to MaxBullets of the bullet lines in the order listed,
\* and an end header line followed by one bullet of the next section.
MaxBullets == 3
StartHeaders == {<<"R", "e", "s", "p", "o", "n", "s", "i", "b", "i", "l", "i", "t", "i", "e", "s", ":">>, <<"r", "e", "s", "p", "o", "n", "s", "i", "b", "i", "l", "i", "t", "i", "e", "s", ":">>, <<"R", "E", "S", "P", "O", "N", "S", "I", "B", "I", "L", "I", "T", "I", "E", "S", ":">>, <<"D", "u", "t", "i", "e", "s", ":">>}
EndHeaders == {<<"R", "e", "q", "u", "i", "r", "e", "m", "e", "n", "t", "s", ":">>, <<"r", "e", "q", "u", "i", "r", "e", "m", "e", "n", "t", "s", ":">>, <<>>}
BulletLines ==
  <<<<BulletChar>> \o <<" ", "P", "l", "a", "n">>, <<"*", " ", "S", "h", "i", "p", " ", "i", "t", " ">>, <<"-", " ", "U", "s", "e", " ", "R", "e", "q", "u", "i", "r", "e", "m", "e", "n", "t", "s", " ", "u", "p">>, <<"-", " ", "T", "e", "s", "t">>, <<"1", ".", " ", "L", "e", "a", "d">>>>
NextSectionBullet == <<"-", " ", "S", "Q", "L">>
RECURSIVE JoinLines(_)
JoinLines(ls) ==
  IF ls = <<>> THEN <<>>
  ELSE IF Len(ls) = 1 THEN ls[1]
  ELSE ls[1] \o <<"\n">> \o JoinLines(Tail(ls))
BulletChoices == {c \in SUBSET DOMAIN BulletLines : Cardinality(c) <= MaxBullets}
ChosenBullets(c) == SelectSeq(BulletLines, LAMBDA l : \E i \in c : BulletLines[i] = l)
\* Lines without a bullet marker at their start, for the sections written
\* as plain lines.
PlainLines == <<<<"P", "l", "a", "n", " ", "t", "h", "e", " ", "w", "o", "r", "k">>, <<"B", "u", "i", "l", "d", " ", "-", " ", "s", "h", "i", "p">>>>
PlainChoices == (SUBSET DOMAIN PlainLines) \ {{}}
ChosenPlain(c) == SelectSeq(PlainLines, LAMBDA l : \E i \in c : PlainLines[i] = l)
SectionTexts ==
  {JoinLines(<<h>> \o ChosenBullets(c) \o (IF e = <<>> THEN <<>> ELSE <<e, NextSectionBullet>>)) :
     h \in StartHeaders, c \in BulletChoices, e \in EndHeaders}
  \cup
  {JoinLines(<<h>> \o ChosenPlain(c) \o (IF e = <<>> THEN <<>> ELSE <<e, NextSectionBullet>>)) :
     h \in StartHeaders, c \in PlainChoices, e \in EndHeaders}

SectionsInit ==
  /\ text \in SectionTexts
  /\ ekind \in SectionKinds
  /\ epc = "search"
  /\ section_text = NoSection
  /\ items = <<>>
  /\ OutsideSectionsIdle

\* `resp_section = re.search(...)`; without a section the empty list is returned.
FindSection ==
  /\ epc = "search"
  /\ section_text' = FindSectionText(ekind, text)
  /\ epc' = IF section_text' = NoSection THEN "done" ELSE "bullets"
  /\ UNCHANGED <<text, ekind, items, outsideSections>>

\* `bullets = re.findall(...)`; `if bullets:` they are returned stripped.
ExtractBullets ==
  /\ epc = "bullets"
  /\ LET bullets == BulletItems(section_text)
     IN  IF bullets # <<>>
         THEN items' = bullets /\ epc' = "done"
         ELSE items' = items /\ epc' = "lines"
  /\ UNCHANGED <<text, ekind, section_text, outsideSections>>

\* The else branch: the section is split into lines.
SplitSectionLines ==
  /\ epc = "lines"
  /\ items' = LineItems(ekind, section_text)
  /\ epc' = "done"
  /\ UNCHANGED <<text, ekind, section_text, outsideSections>>

SectionsNext == FindSection \/ ExtractBullets \/ SplitSectionLines
SpecSections == SectionsInit /\ [][SectionsNext]_vars

(***************************************************************************)
(* Claims about extract_responsibilities.                                  *)
(***************************************************************************)
\* A bullet line: it starts with the bullet character, "*", "-" or "N.".
MarkerLen(line) ==
  IF line = <<>> THEN 0
  ELSE IF line[1] \in {BulletChar, "*", "-"} THEN 1
  ELSE LET digits == RunLen(line, 1, "d")
       IN  IF digits > 0 /\ digits < Len(line) /\ line[digits + 1] = "." THEN digits + 1 ELSE 0
IsBulletLine(line) == MarkerLen(line) > 0
WithoutMarker(line) == Strip(SubSeq(line, MarkerLen(line) + 1, Len(line)))
\* The text is a "Responsibilities:" header, three bullet lines and a
\* "Requirements:" header, in this order, and whatever follows.
ThreeBulletSection(s) ==
  LET ls == SplitLines(s)
  IN  /\ Len(ls) >= 5
      /\ ls[1] = <<"R", "e", "s", "p", "o", "n", "s", "i", "b", "i", "l", "i", "t", "i", "e", "s", ":">>
      /\ \A i \in 2..4 : IsBulletLine(ls[i])
      /\ ls[5] = <<"R", "e", "q", "u", "i", "r", "e", "m", "e", "n", "t", "s", ":">>

\* C12, as claimed: for a text made of a "Responsibilities:" header, three
\* bullet lines and a "Requirements:" header, extract_responsibilities
\* returns exactly three items: the three lines without their bullet
\* marker, trimmed, in document order, and nothing else.
C12_ThreeBulletsReturned ==
  (epc = "done" /\ ekind = "extract_responsibilities" /\ ThreeBulletSection(text))
    => items = [i \in 1..3 |-> WithoutMarker(SplitLines(text)[i + 1])]

\* The header words of the two section patterns, in lower case.
HeaderWords == <<<<"r", "e", "s", "p", "o", "n", "s", "i", "b", "i", "l", "i", "t", "i", "e", "s">>, <<"d", "u", "t", "i", "e", "s">>, <<"y", "o", "u", " ", "w", "i", "l", "l">>, <<"r", "e", "q", "u", "i", "r", "e", "m", "e", "n", "t", "s">>, <<"q", "u", "a", "l", "i", "f", "i", "c", "a", "t", "i", "o", "n", "s">>>>
UpperOf == [c \in Range(LowerSeq) |-> UpperSeq[CHOOSE i \in DOMAIN LowerSeq : LowerSeq[i] = c]]
Upper(c) == IF c \in Range(LowerSeq) THEN UpperOf[c] ELSE c
LetterCases == {"lower", "upper", "capitalised"}
InCase(word, form) ==
  [j \in DOMAIN word |->
     IF form = "upper" \/ (form = "capitalised" /\ j = 1) THEN Upper(word[j]) ELSE Lower(word[j])]
\* The positions where a line of s starts with word, in any letter case.
HeaderStarts(s, word) ==
  {p \in DOMAIN s :
     /\ p = 1 \/ s[p - 1] = "\n"
     /\ p + Len(word) - 1 <= Len(s)
     /\ \A j \in DOMAIN word : Lower(s[p + j - 1]) = word[j]}
\* The texts that differ from s only in the letter case of one header word.
CaseVariants(s) ==
  {[i \in DOMAIN s |-> IF i >= p /\ i < p + Len(HeaderWords[k]) THEN InCase(HeaderWords[k], form)[i - p + 1] ELSE s[i]] :
     k \in {k \in DOMAIN HeaderWords : HeaderStarts(s, HeaderWords[k]) # {}},
     p \in UNION {HeaderStarts(s, HeaderWords[k]) : k \in DOMAIN HeaderWords},
     form \in LetterCases}
\* C13, as claimed: extract_responsibilities finds its start header and its
\* end header in any letter case: a text that differs only in the letter
\* case of a header word gives the same list.
C13_HeaderCaseInsensitive ==
  (epc = "done" /\ ekind = "extract_responsibilities")
    => \A variant \in CaseVariants(text) : extract_responsibilities(variant) = items

(***************************************************************************)
(* Claims comparing extract_responsibilities and extract_qualifications.   *)
(***************************************************************************)
\* The header lines of a responsibilities section and the header lines
\* that stand for them in a qualifications section: the start header
\* becomes a requirements/qualifications header, the end header a benefits
\* header.
CounterpartLine(line) ==
  CASE line = <<"R", "e", "s", "p", "o", "n", "s", "i", "b", "i", "l", "i", "t", "i", "e", "s", ":">> -> <<"R", "e", "q", "u", "i", "r", "e", "m", "e", "n", "t", "s", ":">>
    [] line = <<"r", "e", "s", "p", "o", "n", "s", "i", "b", "i", "l", "i", "t", "i", "e", "s", ":">> -> <<"r", "e", "q", "u", "i", "r", "e", "m", "e", "n", "t", "s", ":">>
    [] line = <<"R", "E", "S", "P", "O", "N", "S", "I", "B", "I", "L", "I", "T", "I", "E", "S", ":">> -> <<"R", "E", "Q", "U", "I", "R", "E", "M", "E", "N", "T", "S", ":">>
    [] line = <<"D", "u", "t", "i", "e", "s", ":">> -> <<"Q", "u", "a", "l", "i", "f", "i", "c", "a", "t", "i", "o", "n", "s", ":">>
    [] line = <<"R", "e", "q", "u", "i", "r", "e", "m", "e", "n", "t", "s", ":">> -> <<"B", "e", "n", "e", "f", "i", "t", "s", ":">>
    [] line = <<"r", "e", "q", "u", "i", "r", "e", "m", "e", "n", "t", "s", ":">> -> <<"b", "e", "n", "e", "f", "i", "t", "s", ":">>
    [] OTHER -> line
Corresponding(s) ==
  LET ls == SplitLines(s)
  IN  JoinLines([i \in DOMAIN ls |-> CounterpartLine(ls[i])])
\* The word occurs in the line, in any letter case.
HoldsWord(line, word) ==
  \E i \in 1..(Len(line) - Len(word) + 1) : \A j \in DOMAIN word : Lower(line[i + j - 1]) = word[j]
SectionWords == Range(HeaderWords) \cup {<<"b", "e", "n", "e", "f", "i", "t", "s">>}
\* No line of the text but its header lines holds a header word.
PlainBody(s) ==
  LET ls == SplitLines(s)
  IN  \A i \in DOMAIN ls :
        CounterpartLine(ls[i]) = ls[i] => \A w \in SectionWords : ~HoldsWord(ls[i], w)

\* C23, as claimed: on a text whose body lines hold no header word,
\* extract_responsibilities returns the list that extract_qualifications
\* returns on the corresponding text (start header turned into a
\* requirements/qualifications header, end header into a benefits header).
C23_SameListOnCorrespondingTexts ==
  (epc = "done" /\ ekind = "extract_responsibilities" /\ PlainBody(text))
    => extract_qualifications(Corresponding(text)) = items

\* The header words of the two extractors, as their section patterns
\* write them.
StartWords(kind) ==
  IF kind = "extract_responsibilities"
  THEN {<<"R", "e", "s", "p", "o", "n", "s", "i", "b", "i", "l", "i", "t", "i", "e", "s">>, <<"R", "E", "S", "P", "O", "N", "S", "I", "B", "I", "L", "I", "T", "I", "E", "S">>, <<"D", "u", "t", "i", "e", "s">>, <<"D", "U", "T", "I", "E", "S">>, <<"Y", "o", "u", " ", "w", "i", "l", "l">>}
  ELSE {<<"R", "e", "q", "u", "i", "r", "e", "m", "e", "n", "t", "s">>, <<"R", "E", "Q", "U", "I", "R", "E", "M", "E", "N", "T", "S">>, <<"Q", "u", "a", "l", "i", "f", "i", "c", "a", "t", "i", "o", "n", "s">>, <<"Q", "U", "A", "L", "I", "F", "I", "C", "A", "T", "I", "O", "N", "S">>}
EndWords(kind) ==
  IF kind = "extract_responsibilities"
  THEN {<<"R", "e", "q", "u", "i", "r", "e", "m", "e", "n", "t", "s">>, <<"R", "E", "Q", "U", "I", "R", "E", "M", "E", "N", "T", "S">>, <<"Q", "u", "a", "l", "i", "f", "i", "c", "a", "t", "i", "o", "n", "s">>, <<"Q", "U", "A", "L", "I", "F", "I", "C", "A", "T", "I", "O", "N", "S">>}
  ELSE {<<"B", "e", "n", "e", "f", "i", "t", "s">>, <<"B", "E", "N", "E", "F", "I", "T", "S">>}
StartsWithOneOf(line, words) == \E w \in words : IsPrefix(w, line)
\* The lines of s after its first start header line and before the next
\* end header line (all the lines after the start header when there is none).
BodyLines(kind, s) ==
  LET ls == SplitLines(s)
      starts == {i \in DOMAIN ls : StartsWithOneOf(ls[i], StartWords(kind))}
      first == MinOf(starts)
      ends == {j \in DOMAIN ls : j > first /\ StartsWithOneOf(ls[j], EndWords(kind))}
      last == IF ends = {} THEN Len(ls) ELSE MinOf(ends) - 1
  IN  IF starts = {} THEN {} ELSE {ls[i] : i \in (first + 1)..last}

\* C25, as claimed: every item returned by extract_responsibilities and by
\* extract_qualifications is the trimmed text of one whole line between
\* the start header and the terminating header: when bullets were found,
\* of a line that starts with a bullet marker (without the marker);
\* otherwise of a line of the section, never of a header.
C25_ItemsAreWholeLines ==
  epc = "done" =>
    \A i \in DOMAIN items :
      IF BulletItems(section_text) # <<>>
      THEN \E l \in BodyLines(ekind, text) : IsBulletLine(l) /\ items[i] = WithoutMarker(l)
      ELSE \E l \in BodyLines(ekind, text) : items[i] = Strip(l)

(***************************************************************************)
(* The four extractors as functions of the text, and sequences of calls.   *)
(***************************************************************************)
\* extract_job_title: the loop over title_patterns, then the first line.
RECURSIVE TitleFrom(_, _)
TitleFrom(s, k) ==
  IF k > Len(title_patterns) THEN FirstLineOrSentinel(s)
  ELSE LET title_match == Search(s, title_patterns[k], 1)
       IN  IF title_match # Fail THEN Strip(Group(s, title_match, 1)) ELSE TitleFrom(s, k + 1)
extract_job_title(s) == TitleFrom(s, 1)

\* extract_required_skills: `skills = {}`, the loop over patterns, the fallback.
DictKept(left) == left
NewDict(left) == <<>>
RECURSIVE SkillsFrom(_, _, _)
SkillsFrom(s, d, p) ==
  IF p > Len(patterns) THEN d ELSE SkillsFrom(s, WriteAll(d, PatternEntries(s, p)), p + 1)
RequiredSkills(s, left) ==
  LET found == SkillsFrom(s, NewDict(left), 1)
  IN  IF NoSkills(found) THEN VocabularySkills(s) ELSE found
extract_required_skills(s) == RequiredSkills(s, <<>>)

Extractors == {"extract_job_title", "extract_required_skills",
               "extract_responsibilities", "extract_qualifications"}
\* The result of a call of fn on s whose locals start from what NewDict and
\* NewList make of left, the locals of the function's previous call.
CallResult(fn, s, left) ==
  CASE fn = "extract_job_title" -> extract_job_title(s)
    [] fn = "extract_required_skills" -> RequiredSkills(s, left)
    [] OTHER -> ExtractSection(fn, s, left)

MaxCalls == 2
CallTexts == {MentionPython3, MentionJava5, <<"D", "u", "t", "i", "e", "s", ":", "\n", "-", " ", "T", "e", "s", "t", "\n", "R", "e", "q", "u", "i", "r", "e", "m", "e", "n", "t", "s", ":", "\n", "-", " ", "S", "Q", "L">>}
NoLocals == [fn \in Extractors |-> <<>>]

CallsInit ==
  /\ calls = <<>>
  /\ kept = NoLocals
  /\ text = <<>>
  /\ OutsideCallsIdle

\* A caller calls one of the four extractors on a text.
CallExtractor ==
  /\ Len(calls) < MaxCalls
  /\ \E fn \in Extractors, s \in CallTexts :
       LET result == CallResult(fn, s, kept[fn])
       IN  /\ calls' = Append(calls, [fn |-> fn, text |-> s, result |-> result])
           /\ kept' = [kept EXCEPT ![fn] = result]
  /\ UNCHANGED <<text, outsideCalls>>

CallsNext == CallExtractor
SpecCalls == CallsInit /\ [][CallsNext]_vars

AsciiPrintable ==
  <<" ", "!", "u0022", "#", "$", "%", "&", "'", "(", ")", "*", "+", ",", "-", ".", "/", "0", "1", "2", "3", "4", "5", "6", "7", "8", "9", ":", ";", "<", "=", ">", "?", "@", "A", "B", "C", "D", "E", "F", "G", "H", "I", "J", "K", "L", "M", "N", "O",
    "P", "Q", "R", "S", "T", "U", "V", "W", "X", "Y", "Z", "[", "\\", "]", "^", "_", "u0060", "a", "b", "c", "d", "e", "f", "g", "h", "i", "j", "k", "l", "m", "n", "o", "p", "q", "r", "s", "t", "u", "v", "w", "x", "y", "z", "{", "|", "}", "~">>
\* The character of a code point and the code point of a character.
Chr(cp) ==
  IF cp = 10 THEN "\n"
  ELSE IF cp \in 32..126 THEN AsciiPrintable[cp - 31]
  ELSE IF cp = 233 THEN "u00E9"
  ELSE "uFFFD"
Ord(c) == IF c = "\n" THEN 10 ELSE 31 + (CHOOSE i \in DOMAIN AsciiPrintable : AsciiPrintable[i] = c)
CharsOf(cps) == SubSeq([i \in DOMAIN cps |-> Chr(cps[i])], 1, Len(cps))
AsciiBytes(s) == SubSeq([i \in DOMAIN s |-> Ord(s[i])], 1, Len(s))

\* Job descriptions: the texts, and the files holding them as ASCII, as
\* UTF-8 with an e-acute (C3 A9) and as Latin-1 with an e-acute (E9).
JDTextPlain == <<"R", "o", "l", "e", ":", " ", "D", "e", "v", "\n", "P", "y", "t", "h", "o", "n", ":", " ", "3", " ", "y", "e", "a", "r", "s">>
JDTextSections == <<"D", "u", "t", "i", "e", "s", ":", "\n", "-", " ", "T", "e", "s", "t", "\n", "R", "e", "q", "u", "i", "r", "e", "m", "e", "n", "t", "s", ":", "\n", "-", " ", "S", "Q", "L">>
JDTextCafe == <<"R", "o", "l", "e", ":", " ", "C", "a", "f">>
\* A content that is not a string (None).
NotAString == <<"None, not a string">>
JDContents == {JDTextPlain, JDTextSections, <<>>, NotAString}
JDFiles ==
  {AsciiBytes(JDTextPlain), AsciiBytes(JDTextSections), <<>>,
   AsciiBytes(JDTextCafe) \o <<195, 169>>, AsciiBytes(JDTextCafe) \o <<233>>}
PathJd == <<"j", "d", ".", "t", "x", "t">>
JDTools == {"parse_job_description", "parse_job_description_content"}
JDFields == <<"job_title", "required_skills", "responsibilities", "qualifications">>

\* What a call of an extractor on the content does: a content that is not
\* a string makes re.search / re.findall raise TypeError.
ExtractorRaises(content) == content = NotAString
FieldValue(field, content) ==
  CASE field = "job_title" -> extract_job_title(content)
    [] field = "required_skills" -> extract_required_skills(content)
    [] field = "responsibilities" -> extract_responsibilities(content)
    [] field = "qualifications" -> extract_qualifications(content)

\* The dicts returned.
Put(d, k, v) == [x \in DOMAIN d \cup {k} |-> IF x = k THEN v ELSE d[x]]
FailureDict(message) == [error |-> message, success |-> FALSE]
SuccessDict(fn, path, rec, content) ==
  LET base == Put(Put(rec, "content", content), "success", TRUE)
  IN  IF fn = "parse_job_description" THEN Put(base, "filename", path) ELSE base

JDInit ==
  /\ \/ jfs = [p \in {PathJd} |-> NoFile]
     \/ jfs \in [{PathJd} -> JDFiles]
  /\ jfn = "none"
  /\ jarg = <<>>
  /\ jpc = "idle"
  /\ jd_content = <<>>
  /\ jidx = 0
  /\ jrec = <<>>
  /\ jresult = <<>>
  /\ jmongo = "none"
  /\ text = <<>>
  /\ OutsideJDIdle

\* The agent calls parse_job_description on the path.
CallParseJobDescription ==
  /\ jpc \in {"idle", "returned"}
  /\ jfn' = "parse_job_description"
  /\ jarg' = PathJd
  /\ jpc' = "open"
  /\ jd_content' = <<>>
  /\ jidx' = 0
  /\ jrec' = <<>>
  /\ jresult' = <<>>
  /\ jmongo' = "none"
  /\ UNCHANGED <<jfs, text, outsideJD>>

\* The agent calls parse_job_description_content on a content.
CallParseJobDescriptionContent ==
  /\ jpc \in {"idle", "returned"}
  /\ \E content \in JDContents :
       /\ jarg' = content
       /\ jd_content' = content
  /\ jfn' = "parse_job_description_content"
  /\ jpc' = "extract"
  /\ jidx' = 1
  /\ jrec' = <<>>
  /\ jresult' = <<>>
  /\ jmongo' = "none"
  /\ UNCHANGED <<jfs, text, outsideJD>>

\* parse_job_description: the existence check and
\* `open(path, 'r', encoding='utf-8')`; a UnicodeDecodeError is caught by
\* the function's `except Exception`.
JDReadFile ==
  /\ jpc = "open"
  /\ IF jfs[jarg] = NoFile
     THEN /\ jresult' = FailureDict("File not found")
          /\ jpc' = "returned"
          /\ UNCHANGED <<jd_content, jidx>>
     ELSE IF ~ReadText("utf-8", jfs[jarg]).ok
     THEN /\ jresult' = FailureDict("UnicodeDecodeError")
          /\ jpc' = "returned"
          /\ UNCHANGED <<jd_content, jidx>>
     ELSE /\ jd_content' = CharsOf(ReadText("utf-8", jfs[jarg]).text)
          /\ jidx' = 1
          /\ jpc' = "extract"
          /\ UNCHANGED jresult
  /\ UNCHANGED <<jfs, jfn, jarg, jrec, jmongo, text, outsideJD>>

\* The next of the four extractor calls; an exception of the extractor is
\* caught by the function's `except Exception` and ends the call.
JDExtractField ==
  /\ jpc = "extract"
  /\ jidx <= Len(JDFields)
  /\ IF ExtractorRaises(jd_content)
     THEN /\ jresult' = FailureDict("TypeError")
          /\ jpc' = "returned"
          /\ UNCHANGED <<jidx, jrec>>
     ELSE /\ jrec' = Put(jrec, JDFields[jidx], FieldValue(JDFields[jidx], jd_content))
          /\ jidx' = jidx + 1
          /\ jpc' = IF jidx = Len(JDFields) THEN "store" ELSE "extract"
          /\ UNCHANGED jresult
  /\ UNCHANGED <<jfs, jfn, jarg, jd_content, jmongo, text, outsideJD>>

\* The errors a MongoDB connection or insert raises: pymongo's, each a
\* PyMongoError.
PyMongoErrors == {"ServerSelectionTimeoutError", "OperationFailure"}
\* The MongoDB step of a tool: MONGO_URI empty, the insert done, or an error
\* of the connection or the insert.
MongoOutcomes == {"no MONGO_URI", "inserted"} \cup PyMongoErrors
\* `except Exception as e:` around the tool's insert.
StoreCaughtNothing(exc) == FALSE
StoreCaught(exc) == TRUE
\* log_warn writes the warning to the logger's own collection too;
\* `except PyMongoError` in _log_to_mongo guards that insert.
LogWarnRaises(exc) == exc \notin PyMongoErrors
\* What the tool returns after the MongoDB step: its result, built from the
\* locals the inserted document was copied from, unless an exception leaves
\* the inner try and reaches the tool's outer `except Exception`.
AfterStore(outcome, result, failure) ==
  IF outcome \in {"no MONGO_URI", "inserted"} THEN result
  ELSE IF StoreCaught(outcome) /\ ~LogWarnRaises(outcome) THEN result
  ELSE failure

\* The optional insert into MongoDB, then the return of the record.
JDReturn ==
  /\ jpc = "store"
  /\ \E mongo \in MongoOutcomes :
       /\ jmongo' = mongo
       /\ jresult' = AfterStore(mongo, SuccessDict(jfn, jarg, jrec, jd_content),
                                FailureDict(mongo))
  /\ jpc' = "returned"
  /\ UNCHANGED <<jfs, jfn, jarg, jd_content, jidx, jrec, text, outsideJD>>

JDNext ==
  \/ CallParseJobDescription
  \/ CallParseJobDescriptionContent
  \/ JDReadFile
  \/ JDExtractField
  \/ JDReturn
SpecJD == JDInit /\ [][JDNext]_vars

\* The fields of the job-description record.
RecordFields == {"job_title", "required_skills", "responsibilities", "qualifications"}

\* C14, as claimed: whenever parse_job_description or
\* parse_job_description_content has called its extractors, the dict it
\* returns holds all of job_title, required_skills, responsibilities and
\* qualifications, also when an extractor failed.
C14_AllFieldsAlwaysPresent ==
  (jpc = "returned" /\ jidx >= 1) => RecordFields \subseteq DOMAIN jresult

\* C15, as claimed: for an existing file, whatever its encoding,
\* parse_job_description returns success = true with the title, skills,
\* responsibilities, qualifications and content; it returns a failure only
\* when the file does not exist.
C15_ExistingFileParsed ==
  (jpc = "returned" /\ jfn = "parse_job_description") =>
    /\ jresult.success <=> (jfs[jarg] # NoFile)
    /\ jresult.success => (RecordFields \cup {"content"}) \subseteq DOMAIN jresult

(***************************************************************************)
(* The envelope constructors success_response and error_response           *)
(* (tools/tool_utils.py, tools/resume_parser.py).  Values are written as   *)
(* Python writes them: "True", "False", and strings.                       *)
(***************************************************************************)
PyTrue == "True"
PyFalse == "False"
PayloadKeys == {"success", "error", "content"}
PayloadValues == {PyFalse, "v"}
\* The dicts a caller passes: any of the keys, each with any of the values.
Payloads == UNION {[keys -> PayloadValues] : keys \in SUBSET PayloadKeys}
Messages == {"m"}
Tracebacks == {"", "tb"}

\* dict.update(other) and {**d, **other}: the entries of other win.
Update(d, other) ==
  [k \in DOMAIN d \cup DOMAIN other |-> IF k \in DOMAIN other THEN other[k] ELSE d[k]]
\* json.dumps(d), read back as the object it encodes: the same keys and values.
JsonOf(d) == [k \in DOMAIN d |-> d[k]]

\* The two constructors of resume_parser, as functions of their arguments.
ParserSuccessResponse(data) == JsonOf(Update(data, [success |-> PyTrue]))
ParserErrorResponse(message, extra) ==
  JsonOf(Update([success |-> PyFalse, error |-> message], extra))

EnvelopeInit ==
  /\ payload \in Payloads
  /\ default_extra = <<>>
  /\ ecall = [fn |-> "none"]
  /\ envelope = <<>>
  /\ text = <<>>
  /\ OutsideEnvelopeIdle

\* tool_utils.success_response(**payload): `response = {"success": True}`,
\* `response.update(kwargs)`; kwargs is a new dict.
SuccessResponseKwargs ==
  /\ envelope' = Update([success |-> PyTrue], payload)
  /\ ecall' = [fn |-> "tool_utils.success_response", before |-> payload]
  /\ UNCHANGED <<payload, default_extra, text, outsideEnvelope>>

\* resume_parser.success_response(payload): `data["success"] = True` on the
\* caller's dict, `json.dumps(data)`.
SuccessResponseDict ==
  /\ payload' = Update(payload, [success |-> PyTrue])
  /\ envelope' = ParserSuccessResponse(payload)
  /\ ecall' = [fn |-> "resume_parser.success_response", before |-> payload]
  /\ UNCHANGED <<default_extra, text, outsideEnvelope>>

\* resume_parser.error_response(message, extra) and error_response(message):
\* `json.dumps({"success": False, "error": message, **extra})`.
ErrorResponseExtra ==
  /\ \E message \in Messages, given \in BOOLEAN :
       LET extra == IF given THEN payload ELSE default_extra
       IN  /\ envelope' = ParserErrorResponse(message, extra)
           /\ ecall' = [fn |-> "resume_parser.error_response", before |-> payload,
                        message |-> message, extra |-> extra]
  /\ UNCHANGED <<payload, default_extra, text, outsideEnvelope>>

\* tool_utils.error_response(error_message, traceback): the traceback is
\* added when it is not empty.
ErrorResponseTraceback ==
  /\ \E message \in Messages, traceback \in Tracebacks :
       /\ envelope' = IF traceback # ""
                       THEN Update([success |-> PyFalse, error |-> message], [traceback |-> traceback])
                       ELSE [success |-> PyFalse, error |-> message]
       /\ ecall' = [fn |-> "tool_utils.error_response", before |-> payload,
                    message |-> message, extra |-> <<>>]
  /\ UNCHANGED <<payload, default_extra, text, outsideEnvelope>>

\* The caller takes another dict for its next call.
NewPayload ==
  /\ ecall.fn # "none"
  /\ payload' \in Payloads
  /\ ecall' = [fn |-> "none"]
  /\ envelope' = <<>>
  /\ UNCHANGED <<default_extra, text, outsideEnvelope>>

EnvelopeNext ==
  \/ SuccessResponseKwargs
  \/ SuccessResponseDict
  \/ ErrorResponseExtra
  \/ ErrorResponseTraceback
  \/ NewPayload
SpecEnvelope == EnvelopeInit /\ [][EnvelopeNext]_vars

SuccessConstructors == {"tool_utils.success_response", "resume_parser.success_response"}
ErrorConstructors == {"tool_utils.error_response", "resume_parser.error_response"}

\* C17, as claimed: the envelope of success_response, in both versions and
\* also for a payload with a field "success", has success = true and every
\* other field of the payload with its value.
C17_SuccessEnvelope ==
  ecall.fn \in SuccessConstructors =>
    /\ envelope["success"] = PyTrue
    /\ \A k \in DOMAIN ecall.before \ {"success"} :
         k \in DOMAIN envelope /\ envelope[k] = ecall.before[k]

\* C18, as claimed: the envelope of error_response, also for an extra with
\* a field "success" or "error", has success = false, error = the message
\* given, and the fields of extra.
C18_ErrorEnvelope ==
  ecall.fn \in ErrorConstructors =>
    /\ envelope["success"] = PyFalse
    /\ envelope["error"] = ecall.message
    /\ \A k \in DOMAIN ecall.extra \ {"success", "error"} :
         k \in DOMAIN envelope /\ envelope[k] = ecall.extra[k]

\* C19, as claimed: a call of success_response or error_response leaves the
\* caller's dict as it was, and the default extra of error_response stays
\* empty.
C19_ConstructorsPure ==
  /\ default_extra = <<>>
  /\ ecall.fn \in (SuccessConstructors \cup ErrorConstructors) => payload = ecall.before

(***************************************************************************)
(* The tool operations of the agent boundary: parse_resume_pdf,            *)
(* load_metadata and find_matching_metadata of tools/resume_parser.py and  *)
(* of agents/resume_agent.py.                                              *)
(***************************************************************************)
MetadataFiles == {"missing", "valid json", "invalid json"}
KnowledgeBases == {"None", "available", "get_document_content raises"}
MetadataFolders == {"", "metadata"}
BoundaryTools ==
  {"resume_parser.parse_resume_pdf", "resume_parser.load_metadata",
   "resume_parser.find_matching_metadata", "ResumeAgent.parse_resume_pdf",
   "ResumeAgent.load_metadata", "ResumeAgent.find_matching_metadata"}

BoundaryInit ==
  /\ bfiles \in [resume : BOOLEAN, metadata : MetadataFiles]
  /\ bkb \in KnowledgeBases
  /\ bcall = "none"
  /\ bresult = <<>>
  /\ bmongo = "none"
  /\ text = <<>>
  /\ OutsideBoundaryIdle

\* resume_parser.parse_resume_pdf
ParserParseResumePdf ==
  /\ bcall' = "resume_parser.parse_resume_pdf"
  /\ bresult' = IF ~bfiles.resume
                THEN ParserErrorResponse("File not found", <<>>)
                ELSE ParserSuccessResponse([filename |-> "cv.pdf", content |-> "content"])
  /\ bmongo' = "none"
  /\ UNCHANGED <<bfiles, bkb, text, outsideBoundary>>

\* resume_parser.load_metadata
ParserLoadMetadata ==
  /\ bcall' = "resume_parser.load_metadata"
  /\ bresult' =
       CASE bfiles.metadata = "missing" ->
              ParserErrorResponse("File not found", [metadata |-> "{}", warning |-> "Missing metadata"])
         [] bfiles.metadata = "invalid json" -> ParserErrorResponse("JSONDecodeError", <<>>)
         [] bfiles.metadata = "valid json" -> ParserSuccessResponse([metadata |-> "metadata"])
  /\ bmongo' = "none"
  /\ UNCHANGED <<bfiles, bkb, text, outsideBoundary>>

\* resume_parser.find_matching_metadata
ParserFindMatchingMetadata ==
  /\ bcall' = "resume_parser.find_matching_metadata"
  /\ bresult' = IF bfiles.metadata # "missing"
                THEN ParserSuccessResponse([metadata_path |-> "metadata/cv.json"])
                ELSE ParserErrorResponse("No metadata", [warning |-> "Missing metadata"])
  /\ bmongo' = "none"
  /\ UNCHANGED <<bfiles, bkb, text, outsideBoundary>>

\* ResumeAgent.parse_resume_pdf
AgentParseResumePdf ==
  /\ bcall' = "ResumeAgent.parse_resume_pdf"
  /\ bresult' =
       IF ~bfiles.resume THEN [error |-> "File not found", success |-> PyFalse]
       ELSE CASE bkb = "available" ->
                   [filename |-> "cv.pdf", content |-> "content", success |-> PyTrue]
              [] bkb = "get_document_content raises" ->
                   [error |-> "Exception", success |-> PyFalse]
              [] bkb = "None" ->
                   [filename |-> "cv.pdf", content |-> "PDF content could not be extracted",
                    success |-> PyFalse]
  /\ bmongo' = "none"
  /\ UNCHANGED <<bfiles, bkb, text, outsideBoundary>>

\* ResumeAgent.load_metadata; the optional insert into MongoDB follows
\* json.load.
AgentLoadMetadata ==
  /\ bcall' = "ResumeAgent.load_metadata"
  /\ CASE bfiles.metadata = "missing" ->
            /\ bresult' = [metadata |-> "{}", warning |-> "File not found", success |-> PyFalse]
            /\ bmongo' = "none"
       [] bfiles.metadata = "invalid json" ->
            /\ bresult' = [error |-> "JSONDecodeError", success |-> PyFalse]
            /\ bmongo' = "none"
       [] bfiles.metadata = "valid json" ->
            \E mongo \in MongoOutcomes :
              /\ bmongo' = mongo
              /\ bresult' = AfterStore(mongo, [metadata |-> "metadata", success |-> PyTrue],
                                       [error |-> mongo, success |-> PyFalse])
  /\ UNCHANGED <<bfiles, bkb, text, outsideBoundary>>

\* ResumeAgent.find_matching_metadata
AgentFindMatchingMetadata ==
  /\ bcall' = "ResumeAgent.find_matching_metadata"
  /\ \E metadata_folder \in MetadataFolders :
       bresult' =
         IF metadata_folder = ""
         THEN [warning |-> "No metadata folder provided", success |-> PyFalse]
         ELSE IF bfiles.metadata # "missing"
         THEN [metadata_path |-> "metadata/cv.json", success |-> PyTrue]
         ELSE [warning |-> "No metadata", success |-> PyFalse]
  /\ bmongo' = "none"
  /\ UNCHANGED <<bfiles, bkb, text, outsideBoundary>>

BoundaryNext ==
  \/ ParserParseResumePdf
  \/ ParserLoadMetadata
  \/ ParserFindMatchingMetadata
  \/ AgentParseResumePdf
  \/ AgentLoadMetadata
  \/ AgentFindMatchingMetadata
SpecBoundary == BoundaryInit /\ [][BoundaryNext]_vars

\* C20, as claimed: every result with success = false of a tool operation
\* carries a field "error"; a warning never replaces it.
C20_FailureCarriesError ==
  (bcall # "none" /\ bresult["success"] = PyFalse) => "error" \in DOMAIN bresult

(***************************************************************************)
(* The tools of tools/resume_parser.py: safe_read_pdf, parse_resume_pdf,   *)
(* load_metadata and batch_process_resume_folder.  Paths are strings, a    *)
(* file is a record of its kind, its bytes and whether it can be opened.   *)
(***************************************************************************)
MaxResumes == 2
ResumeFolder == "resumes"
ResumePath(i) == ResumeFolder \o "/r" \o ToString(i) \o ".pdf"
ResumePaths == {ResumePath(i) : i \in 1..MaxResumes}
MetadataPath == ResumeFolder \o "/r1.json"
ToolPaths == ResumePaths \cup {MetadataPath}

MissingFile == [kind |-> "missing", bytes |-> <<>>, readable |-> FALSE]
Directory == [kind |-> "dir", bytes |-> <<>>, readable |-> TRUE]
FileOf(bs) == [kind |-> "file", bytes |-> bs, readable |-> TRUE]
\* A file that exists and that open() refuses (PermissionError).
UnreadableFile == [kind |-> "file", bytes |-> <<65>>, readable |-> FALSE]

\* A resume text with an e-mail address and a LinkedIn address, no phone number.
ContactText == <<"j", "a", "n", "e", ".", "d", "o", "e", "@", "e", "x", "a", "m", "p", "l", "e", ".", "c", "o", "m", " ", "l", "i", "n", "k", "e", "d", "i", "n", ".", "c", "o", "m", "/", "i", "n", "/", "j", "a", "n", "e", "d", "o", "e">>
\* The resumes on disk: the contact text as ASCII, and one Latin-1 byte
\* that is not valid UTF-8.
ResumeFiles == {MissingFile, UnreadableFile, FileOf(AsciiBytes(ContactText)), FileOf(<<233>>)}
\* The metadata files on disk: "{}" and "{".
MetadataJsonFiles == {MissingFile, FileOf(<<123, 125>>), FileOf(<<123>>)}

\* Path.exists(), Path.name
PathExistsAlways(f, p) == TRUE
PathExists(f, p) == f[p].kind # "missing"
PathName(p) ==
  LET slashes == {i \in 1..Len(p) : SubSeq(p, i, i) = "/"}
  IN  IF slashes = {} THEN p ELSE SubSeq(p, MaxOf(slashes) + 1, Len(p))

\* read_pdf_content on a file, given what PyMuPDF does with it.  The loop
\* over the encodings swallows UnicodeDecodeError only: the error of an
\* open() that the system refuses leaves the function.
RECURSIVE PdfEncodingLoop(_, _)
PdfEncodingLoop(bs, k) ==
  IF k > Len(encodings) THEN Returned(ReadLossy(bs))
  ELSE LET r == ReadText(encodings[k], bs)
       IN  IF r.ok /\ StripText(r.text) # <<>> THEN Returned(r.text)
           ELSE IF r.ok \/ Caught("UnicodeDecodeError") THEN PdfEncodingLoop(bs, k + 1)
           ELSE Raised("UnicodeDecodeError")
ReadPdfContent(file, out) ==
  IF file.kind = "missing" THEN Raised("FileNotFoundError")
  ELSE IF ~file.readable THEN Raised("PermissionError")
  ELSE IF out.kind = "pages" /\ StripText(PagesText(out.pages)) # <<>>
       THEN Returned(PagesText(out.pages))
       ELSE PdfEncodingLoop(file.bytes, 1)

\* safe_read_pdf, the branch after read_pdf_content raised:
\* path.read_text('utf-8'), on UnicodeDecodeError the three other
\* encodings in turn, then the bytes decoded with replacement.
fallback_encodings_cp1252_first == <<"cp1252", "latin-1", "iso-8859-1">>
fallback_encodings == <<"latin-1", "cp1252", "iso-8859-1">>
\* Each gives the text returned and the decodings tried, in order.
RECURSIVE FallbackLoop(_, _, _)
FallbackLoop(bs, k, tried) ==
  IF k > Len(fallback_encodings)
  THEN [text |-> ReadLossy(bs), tried |-> Append(tried, "replace")]
  ELSE LET r == ReadText(fallback_encodings[k], bs)
       IN  IF r.ok THEN [text |-> r.text, tried |-> Append(tried, fallback_encodings[k])]
           ELSE FallbackLoop(bs, k + 1, Append(tried, fallback_encodings[k]))
FallbackDecode(bs) ==
  LET r == ReadText("utf-8", bs)
  IN  IF r.ok THEN [text |-> r.text, tried |-> <<"utf-8">>] ELSE FallbackLoop(bs, 1, <<"utf-8">>)
FallbackRead(file) ==
  IF file.kind = "missing" THEN Raised("FileNotFoundError")
  ELSE IF ~file.readable THEN Raised("PermissionError")
  ELSE Returned(FallbackDecode(file.bytes).text)
\* safe_read_pdf(path)
SafeReadPdf(file, out) ==
  LET r == ReadPdfContent(file, out)
  IN  IF r.kind = "text" THEN r ELSE FallbackRead(file)

\* json.load(f) of a file opened with encoding='utf-8'.
JsonLoad(bs) ==
  LET r == ReadText("utf-8", bs)
  IN  IF ~r.ok THEN Raised("UnicodeDecodeError")
      ELSE IF r.text = <<123, 125>> THEN Returned("{}")
      ELSE Raised("JSONDecodeError")

ResumeTools == {"parse_resume_pdf", "load_metadata", "batch_process_resume_folder"}

ToolsInit ==
  /\ \/ rtfs = [p \in ToolPaths \cup {ResumeFolder} |-> MissingFile]
     \/ \E resumes \in [ResumePaths -> ResumeFiles], metadata \in MetadataJsonFiles :
          rtfs = [p \in ToolPaths \cup {ResumeFolder} |->
                    IF p = ResumeFolder THEN Directory
                    ELSE IF p = MetadataPath THEN metadata ELSE resumes[p]]
  /\ rtfn = "none"
  /\ rtarg = ""
  /\ rtpc = "ready"
  /\ rtopened = <<>>
  /\ pdf_files = <<>>
  /\ rtidx = 1
  /\ results = <<>>
  /\ rtresult = <<>>
  /\ text = <<>>
  /\ OutsideToolsIdle

\* parse_resume_pdf(pdf_path)
ParsedResume(pdf_path, content) ==
  IF content.kind = "text"
  THEN ParserSuccessResponse([filename |-> PathName(pdf_path), content |-> content.text])
  ELSE ParserErrorResponse(content.exc, <<>>)
ParseResumePdf ==
  /\ rtpc \in {"ready", "returned"}
  /\ \E pdf_path \in ResumePaths, out \in FitzOutcomes :
       /\ rtarg' = pdf_path
       /\ IF ~PathExists(rtfs, pdf_path)
          THEN /\ rtresult' = ParserErrorResponse("File not found: " \o pdf_path, <<>>)
               /\ rtopened' = <<>>
          ELSE /\ rtresult' = ParsedResume(pdf_path, SafeReadPdf(rtfs[pdf_path], out))
               /\ rtopened' = <<pdf_path>>
  /\ rtfn' = "parse_resume_pdf"
  /\ rtpc' = "returned"
  /\ pdf_files' = <<>>
  /\ rtidx' = 1
  /\ results' = <<>>
  /\ UNCHANGED <<rtfs, text, outsideTools>>

\* load_metadata(metadata_path)
LoadMetadata ==
  /\ rtpc \in {"ready", "returned"}
  /\ \E metadata_path \in {MetadataPath} :
       LET metadata == JsonLoad(rtfs[metadata_path].bytes)
       IN  /\ rtarg' = metadata_path
           /\ IF ~PathExists(rtfs, metadata_path)
              THEN /\ rtresult' = ParserErrorResponse("File not found: " \o metadata_path,
                                                      [metadata |-> "{}", warning |-> "Missing metadata"])
                   /\ rtopened' = <<>>
              ELSE /\ rtresult' =
                        IF metadata.kind = "text"
                        THEN ParserSuccessResponse([metadata |-> metadata.text])
                        ELSE ParserErrorResponse(metadata.exc, <<>>)
                   /\ rtopened' = <<metadata_path>>
  /\ rtfn' = "load_metadata"
  /\ rtpc' = "returned"
  /\ pdf_files' = <<>>
  /\ rtidx' = 1
  /\ results' = <<>>
  /\ UNCHANGED <<rtfs, text, outsideTools>>

\* folder.glob("*.pdf"): the entries of the folder whose name ends in
\* ".pdf", in an order the system chooses.
EndsWith(s, suffix) ==
  Len(s) >= Len(suffix) /\ SubSeq(s, Len(s) - Len(suffix) + 1, Len(s)) = suffix
GlobPdf(f, folder) ==
  {p \in DOMAIN f :
     /\ p # folder
     /\ SubSeq(p, 1, Len(folder) + 1) = folder \o "/"
     /\ PathExists(f, p)
     /\ EndsWith(PathName(p), ".pdf")}
Listings(S) ==
  {l \in [1..Cardinality(S) -> S] : \A i, j \in 1..Cardinality(S) : l[i] = l[j] => i = j}

\* results.append({...}) of the two branches of the loop body.
SuccessEntry(rs, pdf_file, content) ==
  Append(rs, [filename |-> PathName(pdf_file), path |-> pdf_file, content |-> content,
              success |-> PyTrue])
FailureEntrySkipped(rs, pdf_file, e) == rs
FailureEntry(rs, pdf_file, e) ==
  Append(rs, [filename |-> PathName(pdf_file), path |-> pdf_file, success |-> PyFalse,
              error |-> e])

\* batch_process_resume_folder(folder_path): the folder check and the listing.
BatchListFolder ==
  /\ rtpc \in {"ready", "returned"}
  /\ rtfn' = "batch_process_resume_folder"
  /\ rtarg' = ResumeFolder
  /\ rtopened' = <<>>
  /\ results' = <<>>
  /\ rtidx' = 1
  /\ IF ~PathExists(rtfs, ResumeFolder)
     THEN /\ rtresult' = ParserErrorResponse("Folder not found: " \o ResumeFolder, <<>>)
          /\ pdf_files' = <<>>
          /\ rtpc' = "returned"
     ELSE /\ pdf_files' \in Listings(GlobPdf(rtfs, ResumeFolder))
          /\ rtresult' = <<>>
          /\ rtpc' = "for pdf_file"
  /\ UNCHANGED <<rtfs, text, outsideTools>>

\* One turn of `for pdf_file in pdf_files`: the file is read and an entry
\* is appended, a success entry or, when safe_read_pdf raised, a failure
\* entry.
BatchEntry(rs, pdf_file, content) ==
  IF content.kind = "text"
  THEN SuccessEntry(rs, pdf_file, content.text)
  ELSE FailureEntry(rs, pdf_file, content.exc)
BatchReadFile ==
  /\ rtpc = "for pdf_file"
  /\ rtidx <= Len(pdf_files)
  /\ \E out \in FitzOutcomes :
       results' = BatchEntry(results, pdf_files[rtidx], SafeReadPdf(rtfs[pdf_files[rtidx]], out))
  /\ rtopened' = Append(rtopened, pdf_files[rtidx])
  /\ rtidx' = rtidx + 1
  /\ UNCHANGED <<rtfs, rtfn, rtarg, rtpc, pdf_files, rtresult, text, outsideTools>>

\* After the loop: the outer envelope.
BatchReturn ==
  /\ rtpc = "for pdf_file"
  /\ rtidx > Len(pdf_files)
  /\ rtresult' = ParserSuccessResponse([total_files |-> Len(pdf_files),
                                        processed_files |-> Len(results),
                                        results |-> results])
  /\ rtpc' = "returned"
  /\ UNCHANGED <<rtfs, rtfn, rtarg, rtopened, pdf_files, rtidx, results, text, outsideTools>>

ToolsNext ==
  \/ ParseResumePdf
  \/ LoadMetadata
  \/ BatchListFolder
  \/ BatchReadFile
  \/ BatchReturn
SpecTools == ToolsInit /\ [][ToolsNext]_vars

(***************************************************************************)
(* The paths that do not exist: the content reader called directly, or     *)
(* the resume tools called (the tools are not in use while the reader is   *)
(* called directly).                                                       *)
(***************************************************************************)
NotFoundInit == ReaderInit \/ ToolsInit
NotFoundNext ==
  \/ rtpc = "idle" /\ ReaderNext
  \/ ToolsNext
SpecNotFound == NotFoundInit /\ [][NotFoundNext]_vars

\* C21: a path that does not exist is reported at once: read_file_content,
\* read_pdf_content and read_text_file raise FileNotFoundError before any
\* extraction or decode attempt, and parse_resume_pdf and load_metadata
\* return a failure envelope whose error is "File not found: <path>"
\* without having opened anything.
C21_MissingPathReportedAtOnce ==
  /\ (rtpc = "idle" /\ rfn # "none" /\ ~FileExists(fs, rpath)) =>
       /\ rtried = <<>>
       /\ rpc \in ReaderFunctions \cup {"raised"}
       /\ rpc = "raised" => rresult = Raised("FileNotFoundError")
  /\ (rtpc = "returned" /\ rtfn \in {"parse_resume_pdf", "load_metadata"}
        /\ rtfs[rtarg].kind = "missing") =>
       /\ rtresult["success"] = PyFalse
       /\ rtresult["error"] = "File not found: " \o rtarg
       /\ rtopened = <<>>

\* C21's case: load_metadata was called on a path that does not exist, in a
\* folder that does, and has returned.
C21_Witness ==
  /\ rtpc = "returned"
  /\ rtfn = "load_metadata"
  /\ rtfs[ResumeFolder].kind = "dir"
  /\ rtfs[rtarg].kind = "missing"
  /\ "warning" \in DOMAIN rtresult

(***************************************************************************)
(* Claims about the resume tools.                                          *)
(***************************************************************************)
\* The sequence w occurs in the sequence s.
HasSubSeq(s, w) == \E i \in 1..(Len(s) - Len(w) + 1) : SubSeq(s, i, i + Len(w) - 1) = w
ContactEmail == <<"j", "a", "n", "e", ".", "d", "o", "e", "@", "e", "x", "a", "m", "p", "l", "e", ".", "c", "o", "m">>
ContactLinkedIn == <<"l", "i", "n", "k", "e", "d", "i", "n", ".", "c", "o", "m", "/", "i", "n", "/", "j", "a", "n", "e", "d", "o", "e">>
ContactHandle == <<"j", "a", "n", "e", "d", "o", "e">>
HoldsContact(content) ==
  /\ HasSubSeq(content, AsciiBytes(ContactEmail))
  /\ HasSubSeq(content, AsciiBytes(ContactLinkedIn))
\* The results the tools give for one resume: the envelope of
\* parse_resume_pdf and the entries of batch_process_resume_folder.
ResumeRecords ==
  IF rtpc # "returned" THEN {}
  ELSE IF rtfn = "parse_resume_pdf" THEN {rtresult}
  ELSE IF rtfn = "batch_process_resume_folder" /\ "results" \in DOMAIN rtresult
       THEN Range(rtresult["results"])
  ELSE {}

\* C22, as claimed: the contact of a resume text that holds
\* "jane.doe@example.com" and "linkedin.com/in/janedoe" and no phone number
\* is extracted: the record of the resume has email = "jane.doe@example.com",
\* linkedin_handle = "janedoe" and phone = None.
C22_ContactExtracted ==
  \A r \in ResumeRecords :
    (r["success"] = PyTrue /\ HoldsContact(r["content"])) =>
      /\ {"email", "linkedin_handle", "phone"} \subseteq DOMAIN r
      /\ r["email"] = AsciiBytes(ContactEmail)
      /\ r["linkedin_handle"] = AsciiBytes(ContactHandle)
      /\ r["phone"] = "None"

\* C26: batch_process_resume_folder on an existing folder returns one entry
\* per *.pdf file of the folder, each file once and in listing order, with
\* processed_files = total_files = the number of entries; an entry has
\* success = true and the content when the read succeeded, success = false
\* and an error otherwise; a failure does not stop the loop, and the outer
\* envelope has success = true whatever the entries.
C26_BatchOneEntryPerFile ==
  (rtpc = "returned" /\ rtfn = "batch_process_resume_folder" /\ rtfs[ResumeFolder].kind # "missing") =>
    LET rs == rtresult["results"]
        files == GlobPdf(rtfs, ResumeFolder)
    IN  /\ rtresult["success"] = PyTrue
        /\ Range(pdf_files) = files
        /\ Len(pdf_files) = Cardinality(files)
        /\ Len(rs) = Len(pdf_files)
        /\ rtresult["total_files"] = Len(rs)
        /\ rtresult["processed_files"] = Len(rs)
        /\ \A i \in DOMAIN rs :
             /\ rs[i]["path"] = pdf_files[i]
             /\ rs[i]["filename"] = PathName(pdf_files[i])
             /\ IF rtfs[pdf_files[i]].readable
                THEN rs[i]["success"] = PyTrue /\ "content" \in DOMAIN rs[i]
                ELSE rs[i]["success"] = PyFalse /\ "error" \in DOMAIN rs[i]

\* C26's case: the first file of the listing could not be read, the second
\* was read, and both have their entry.
C26_Witness ==
  /\ rtpc = "returned"
  /\ rtfn = "batch_process_resume_folder"
  /\ Len(pdf_files) = 2
  /\ ~rtfs[pdf_files[1]].readable
  /\ rtresult["results"][1]["success"] = PyFalse
  /\ rtresult["results"][2]["success"] = PyTrue
  /\ rtresult["results"][2]["content"] = AsciiBytes(ContactText)

(***************************************************************************)
(* The three copies of the text decode chain: read_text_file               *)
(* (tools/pdf_utils.py), the loop of main (main.py) and the fallback       *)
(* branch of safe_read_pdf (tools/resume_parser.py), each run on the bytes *)
(* of one file.  A run gives the text and the decodings tried, in order.   *)
(***************************************************************************)
\* read_text_file: the first encoding that decodes returns from the loop;
\* after the loop, the bytes decoded with replacement.
RECURSIVE TextFileLoop(_, _, _)
TextFileLoop(bs, k, tried) ==
  IF k > Len(encodings)
  THEN [text |-> ReadLossy(bs), tried |-> Append(tried, "replace")]
  ELSE LET r == ReadText(encodings[k], bs)
       IN  IF r.ok THEN [text |-> r.text, tried |-> Append(tried, encodings[k])]
           ELSE TextFileLoop(bs, k + 1, Append(tried, encodings[k]))

\* main: jd_content = None; the first encoding that decodes assigns it and
\* breaks; `if jd_content is None` the bytes are decoded with replacement.
encodings_to_try == <<"utf-8", "latin-1", "cp1252", "iso-8859-1">>
RECURSIVE MainLoop(_, _, _)
MainLoop(bs, k, tried) ==
  IF k > Len(encodings_to_try)
  THEN [is_none |-> TRUE, jd_content |-> <<>>, tried |-> tried]
  ELSE LET r == ReadText(encodings_to_try[k], bs)
       IN  IF r.ok
           THEN [is_none |-> FALSE, jd_content |-> r.text, tried |-> Append(tried, encodings_to_try[k])]
           ELSE MainLoop(bs, k + 1, Append(tried, encodings_to_try[k]))
MainRead(bs) ==
  LET after == MainLoop(bs, 1, <<>>)
  IN  IF after.is_none
      THEN [text |-> ReadLossy(bs), tried |-> Append(after.tried, "replace")]
      ELSE [text |-> after.jd_content, tried |-> after.tried]

DecodeCopies == {"read_text_file", "main", "safe_read_pdf"}
NotRun == [ran |-> FALSE, text |-> <<>>, tried |-> <<>>]
Ran(r) == [ran |-> TRUE, text |-> r.text, tried |-> r.tried]

CopiesInit ==
  /\ cbytes \in Contents
  /\ copies = [c \in DecodeCopies |-> NotRun]
  /\ text = <<>>
  /\ OutsideCopiesIdle

RunReadTextFile ==
  /\ ~copies["read_text_file"].ran
  /\ copies' = [copies EXCEPT !["read_text_file"] = Ran(TextFileLoop(cbytes, 1, <<>>))]
  /\ UNCHANGED <<cbytes, text, outsideCopies>>
RunMainLoop ==
  /\ ~copies["main"].ran
  /\ copies' = [copies EXCEPT !["main"] = Ran(MainRead(cbytes))]
  /\ UNCHANGED <<cbytes, text, outsideCopies>>
RunSafeReadFallback ==
  /\ ~copies["safe_read_pdf"].ran
  /\ copies' = [copies EXCEPT !["safe_read_pdf"] = Ran(FallbackDecode(cbytes))]
  /\ UNCHANGED <<cbytes, text, outsideCopies>>

CopiesNext == RunReadTextFile \/ RunMainLoop \/ RunSafeReadFallback
SpecCopies == CopiesInit /\ [][CopiesNext]_vars

\* C28: the three copies of the decode chain agree: on every file content
\* read_text_file, the loop of main and the fallback branch of
\* safe_read_pdf return the same string, and each returns the lossy decode
\* only if all four encodings raised a decode error.
C28_DecodeCopiesAgree ==
  /\ \A c, d \in DecodeCopies :
       (copies[c].ran /\ copies[d].ran) => copies[c].text = copies[d].text
  /\ \A c \in DecodeCopies :
       (copies[c].ran /\ copies[c].tried[Len(copies[c].tried)] = "replace") =>
         \A k \in DOMAIN ListedOrder : ~ReadText(ListedOrder[k], cbytes).ok

\* C28's case: the three copies have read bytes that are not valid UTF-8
\* and that cp1252 decodes differently from Latin-1 (0x85), and each
\* returned the Latin-1 text.
C28_Witness ==
  /\ cbytes = <<65, 133>>
  /\ \A c \in DecodeCopies :
       copies[c].ran /\ copies[c].text = <<65, 133>> /\ copies[c].tried = <<"utf-8", "latin-1">>

\* The three tools that store to MongoDB, in one specification: the two
\* JDAgent tools and the tools of the agent boundary, ResumeAgent.load_metadata
\* among them.
StoreInit == JDInit \/ BoundaryInit
StoreNext ==
  \/ bkb = "none" /\ JDNext
  \/ bkb # "none" /\ BoundaryNext
SpecStore == StoreInit /\ [][StoreNext]_vars

\* C29: storing to MongoDB never changes what a tool returns: whatever the
\* MongoDB step did (MONGO_URI empty, the insert done, the connection or the
\* insert failing), parse_job_description, parse_job_description_content and
\* ResumeAgent.load_metadata return the same success result, made of the
\* extracted fields or the metadata alone.
C29_StoreNeverChangesResult ==
  /\ (jpc = "returned" /\ jmongo # "none") =>
       /\ jresult = SuccessDict(jfn, jarg, jrec, jd_content)
       /\ jresult.success = TRUE
       /\ DOMAIN jresult \subseteq DOMAIN jrec \cup {"content", "success", "filename"}
  /\ (bcall = "ResumeAgent.load_metadata" /\ bmongo # "none") =>
       bresult = [metadata |-> "metadata", success |-> PyTrue]
C29_Witness ==
  /\ jpc = "returned"
  /\ jfn = "parse_job_description"
  /\ jmongo \in PyMongoErrors
  /\ jresult.success = TRUE

(***************************************************************************)
(* The file-changing tools: move_file, copy_file, rename_file              *)
(* (tools/file_manager.py) and CoordinatorAgent.rename_and_move_resume     *)
(* (agents/coordinator.py), on a filesystem of two directories.            *)
(***************************************************************************)
FmDirs == {"in", "out"}
FmNames == {"cv.pdf", "b.pdf"}
\* Scores in tenths: 875 is the score 87.5.
FmScores == {875}
\* f"{score:.1f}".replace('.', '_')
FormatScore(tenths) == ToString(tenths \div 10) \o "_" \o ToString(tenths % 10)
\* f"{score_str}__{source.name}"
ScoredName(tenths, name) == FormatScore(tenths) \o "__" \o name
\* destination_folder of rename_and_move_resume
FilteredFolders == {"out"}
ScoredPaths == {<<d, ScoredName(s, n)>> : d \in FilteredFolders, s \in FmScores, n \in FmNames}
\* A path is a directory and a file name in it.
PlainPaths == FmDirs \X FmNames
FmPaths == PlainPaths \cup ScoredPaths
Absent == "absent"
FmContents == {"A", "B"}
PathStr(p) == p[1] \o "/" \o p[2]

\* Path.exists()
SourceExistsUnchecked(fsys, p) == TRUE
SourceExists(fsys, p) == fsys.files[p] # Absent
\* os.makedirs(destination.parent, exist_ok=True) and
\* dest_folder.mkdir(parents=True, exist_ok=True)
Makedirs(fsys, d) == [fsys EXCEPT !.dirs = @ \cup {d}]
\* The outcome of a library call: the exception it raised ("" for none) and
\* the filesystem it leaves.
FmDone(fsys) == [raised |-> "", fs |-> fsys]
FmRaised(exc, fsys) == [raised |-> exc, fs |-> fsys]
\* os.rename, Path.rename: onto the path itself nothing happens; an existing
\* destination file is replaced.
OsRename(fsys, src, dst) ==
  IF fsys.files[src] = Absent \/ dst[1] \notin fsys.dirs
  THEN FmRaised("FileNotFoundError", fsys)
  ELSE IF src = dst THEN FmDone(fsys)
  ELSE FmDone([fsys EXCEPT !.files = [@ EXCEPT ![dst] = fsys.files[src], ![src] = Absent]])
\* shutil.copy2
Copy2(fsys, src, dst) ==
  IF fsys.files[src] = Absent THEN FmRaised("FileNotFoundError", fsys)
  ELSE IF src = dst THEN FmRaised("SameFileError", fsys)
  ELSE IF dst[1] \notin fsys.dirs THEN FmRaised("FileNotFoundError", fsys)
  ELSE FmDone([fsys EXCEPT !.files = [@ EXCEPT ![dst] = fsys.files[src]]])
\* shutil.move of a file to a file path: os.rename, and when that raises
\* OSError, copy2 followed by os.unlink of the source.
ShutilMove(fsys, src, dst) ==
  LET renamed == OsRename(fsys, src, dst)
      copied == Copy2(fsys, src, dst)
  IN  IF renamed.raised = "" THEN renamed
      ELSE IF copied.raised # "" THEN copied
      ELSE FmDone([copied.fs EXCEPT !.files = [@ EXCEPT ![src] = Absent]])

\* {"success": True, "source": ..., "destination": ...} and the dict of the
\* `except Exception` branch.
FmSuccess(src, dst) == [success |-> TRUE, source |-> PathStr(src), destination |-> PathStr(dst)]
FmFailure(message) == [success |-> FALSE, error |-> message]
FmCall(fn, src, dst) == [fn |-> fn, source |-> src, destination |-> dst]

\* The filesystems a call can start from: "in" exists, "out" may; a file is
\* in an existing directory; no scored copy yet.
FmStartFiles ==
  {f \in [FmPaths -> FmContents \cup {Absent}] :
     \A p \in FmPaths :
       /\ p \in ScoredPaths => f[p] = Absent
       /\ p[2] = "cv.pdf" => f[p] \in {Absent, "A"}
       /\ p[2] = "b.pdf" => f[p] \in {Absent, "B"}}
FilesInit ==
  /\ \E dirs \in {{"in"}, FmDirs}, f \in FmStartFiles :
       /\ \A p \in FmPaths : f[p] # Absent => p[1] \in dirs
       /\ fmfs = [dirs |-> dirs, files |-> f]
  /\ fmbefore = fmfs
  /\ fmcall = FmCall("none", <<>>, <<>>)
  /\ fmresult = <<>>
  /\ text = <<>>
  /\ OutsideFilesIdle

\* What a tool leaves: the filesystem after its library calls and its dict.
FmEffect(prepared, outcome, success) ==
  [fs |-> IF outcome.raised = "" THEN outcome.fs ELSE prepared,
   result |-> IF outcome.raised = "" THEN success ELSE FmFailure(outcome.raised)]

\* move_file(source_path, destination_path, create_dirs)
MoveFileOf(fsys, src, dst, create_dirs) ==
  IF ~SourceExists(fsys, src)
  THEN [fs |-> fsys, result |-> FmFailure("Source file not found")]
  ELSE LET prepared == IF create_dirs THEN Makedirs(fsys, dst[1]) ELSE fsys
       IN  FmEffect(prepared, ShutilMove(prepared, src, dst), FmSuccess(src, dst))
MoveFile ==
  /\ \E src \in PlainPaths, dst \in PlainPaths, create_dirs \in BOOLEAN :
       /\ fmcall' = FmCall("move_file", src, dst)
       /\ fmfs' = MoveFileOf(fmfs, src, dst, create_dirs).fs
       /\ fmresult' = MoveFileOf(fmfs, src, dst, create_dirs).result
  /\ fmbefore' = fmfs
  /\ UNCHANGED <<text, outsideFiles>>

\* copy_file(source_path, destination_path, create_dirs)
CopyFileOf(fsys, src, dst, create_dirs) ==
  IF ~SourceExists(fsys, src)
  THEN [fs |-> fsys, result |-> FmFailure("Source file not found")]
  ELSE LET prepared == IF create_dirs THEN Makedirs(fsys, dst[1]) ELSE fsys
       IN  FmEffect(prepared, Copy2(prepared, src, dst), FmSuccess(src, dst))
CopyFile ==
  /\ \E src \in PlainPaths, dst \in PlainPaths, create_dirs \in BOOLEAN :
       /\ fmcall' = FmCall("copy_file", src, dst)
       /\ fmfs' = CopyFileOf(fmfs, src, dst, create_dirs).fs
       /\ fmresult' = CopyFileOf(fmfs, src, dst, create_dirs).result
  /\ fmbefore' = fmfs
  /\ UNCHANGED <<text, outsideFiles>>

\* rename_file(file_path, new_name): new_path = path.parent / new_name
RenameFileOf(fsys, path, new_name) ==
  LET new_path == <<path[1], new_name>>
  IN  IF ~SourceExists(fsys, path)
      THEN [fs |-> fsys, result |-> FmFailure("File not found")]
      ELSE FmEffect(fsys, OsRename(fsys, path, new_path),
                    [success |-> TRUE, original |-> PathStr(path), new |-> PathStr(new_path)])
RenameFile ==
  /\ \E path \in PlainPaths, new_name \in FmNames :
       /\ fmcall' = FmCall("rename_file", path, <<path[1], new_name>>)
       /\ fmfs' = RenameFileOf(fmfs, path, new_name).fs
       /\ fmresult' = RenameFileOf(fmfs, path, new_name).result
  /\ fmbefore' = fmfs
  /\ UNCHANGED <<text, outsideFiles>>

\* CoordinatorAgent.rename_and_move_resume(source_path, score,
\* destination_folder)
RenameAndMoveResumeOf(fsys, source, score, destination_folder) ==
  LET destination == <<destination_folder, ScoredName(score, source[2])>>
      prepared == Makedirs(fsys, destination_folder)
  IN  IF ~SourceExists(fsys, source)
      THEN [fs |-> fsys,
            result |-> [error |-> "File not found: " \o PathStr(source), success |-> FALSE]]
      ELSE FmEffect(prepared, Copy2(prepared, source, destination),
                    [original_path |-> PathStr(source), new_path |-> PathStr(destination),
                     score |-> score, success |-> TRUE])
RenameAndMoveResume ==
  /\ \E source \in PlainPaths, score \in FmScores, destination_folder \in FilteredFolders :
       /\ fmcall' = FmCall("rename_and_move_resume", source,
                           <<destination_folder, ScoredName(score, source[2])>>)
       /\ fmfs' = RenameAndMoveResumeOf(fmfs, source, score, destination_folder).fs
       /\ fmresult' = RenameAndMoveResumeOf(fmfs, source, score, destination_folder).result
  /\ fmbefore' = fmfs
  /\ UNCHANGED <<text, outsideFiles>>

FilesNext ==
  \/ MoveFile
  \/ CopyFile
  \/ RenameFile
  \/ RenameAndMoveResume
SpecFiles == FilesInit /\ [][FilesNext]_vars

\* The last call was made on a source path that did not exist / returned
\* success.
FmSourceWasMissing == fmcall.fn # "none" /\ fmbefore.files[fmcall.source] = Absent
FmSucceeded(fns) == fmcall.fn \in fns /\ fmresult.success = TRUE
\* A call on a missing source fails and leaves the filesystem as it was;
\* a successful copy leaves the source as it was and the destination there.
FmMissingAndCopies ==
  /\ FmSourceWasMissing => (fmresult.success = FALSE /\ fmfs = fmbefore)
  /\ FmSucceeded({"copy_file", "rename_and_move_resume"}) =>
       /\ fmbefore.files[fmcall.source] # Absent
       /\ fmfs.files[fmcall.source] = fmbefore.files[fmcall.source]
       /\ fmfs.files[fmcall.destination] = fmbefore.files[fmcall.source]

\* C30: the file-changing tools change nothing when the source is missing
\* (success=false, no directory or file created); after a successful
\* copy_file or rename_and_move_resume the source is unchanged and the
\* destination exists; after a successful move_file or rename_file the
\* source path no longer exists.
C30_FileToolsFrame ==
  /\ FmMissingAndCopies
  /\ FmSucceeded({"move_file", "rename_file"}) => fmfs.files[fmcall.source] = Absent

\* C30, amended: as C30, but after a successful move_file or rename_file
\* the source path no longer exists only when the destination is another
\* path; onto the source path itself the call succeeds and the file stays.
C30_FileToolsFrameOtherPath ==
  /\ FmMissingAndCopies
  /\ FmSucceeded({"move_file", "rename_file"}) =>
       /\ fmbefore.files[fmcall.source] # Absent
       /\ fmfs.files[fmcall.destination] = fmbefore.files[fmcall.source]
       /\ fmcall.source # fmcall.destination => fmfs.files[fmcall.source] = Absent
       /\ fmcall.source = fmcall.destination => fmfs = fmbefore
C30_Witness ==
  /\ FmSucceeded({"move_file"})
  /\ fmcall.source = fmcall.destination
  /\ fmfs.files[fmcall.source] # Absent

====
